---- MODULE Spec2Model ----
(***************************************************************************)
(* Request-context resolution, the user directory and the access-control   *)
(* middleware chain of the fullstack web template (server/lib/trpc.ts,     *)
(* server/lib/context.ts, server/db.ts, shared/errors.ts).                 *)
(*                                                                         *)
(* Optional values (T | null | undefined) are sets with at most one        *)
(* element: {} is the absent value, {v} the present one.                   *)
(***************************************************************************)
EXTENDS Integers, Sequences, FiniteSets, TLC

VARIABLES
  \* ---- one procedure call through its middleware chain (trpc.ts) ----
  call,      \* the call being served: procedure, ctx.user, what the handler does
  cpc,       \* "idle" | "down" | "up" | "done"
  depth,     \* index of the frame of the chain that is running
  trace,     \* the frames entered so far, in order
  result,    \* what the frame at `depth` produced
  response,  \* what the caller receives
  \* ---- request-context resolution and the user directory ----
  users,            \* the rows of table "users"
  users_id_seq,     \* the serial sequence behind users.id
  db,               \* _db of server/db.ts: the lazily created handle, or absent
  supabaseEnabled,  \* ENV.supabaseEnabled
  now,              \* the clock read by new Date() and by the store's now()
  rq,               \* per concurrent request: the locals of createContext
  \* ---- direct calls of the directory (server/db.ts) ----
  global_counter,   \* the rows of table "global_counter"
  dq,               \* per concurrent caller: the locals of the db.ts function it runs
  \* ---- the error library used on its own (shared/errors.ts) ----
  errCall,          \* the last library call: its arguments and what it returned
  \* ---- the client's query cache (client/src/lib/TrpcProvider.tsx) ----
  qry,              \* the query or mutation being run and its retries so far
  \* ---- the realtime channel (server/socket.ts, useSocket) ----
  realtimeCounter,  \* let realtimeCounter
  connectedUsers,   \* let connectedUsers
  sockets,          \* per client: its socket on the server, the messages in
                    \* flight both ways, and the state of its useSocket hook
  io,               \* what the server has handled and broadcast so far
  \* ---- the useComposition hook (client/src/hooks) ----
  comp,             \* its refs, the timeouts it has pending, the last keydown
  \* ---- the client's auth store (client/src/store/index.ts) ----
  store,            \* the state of useAuthStore
  supa              \* the Supabase auth client: its session, the getSession
                    \* result and the auth events not yet handed to the store

chainVars == <<call, cpc, depth, trace, result, response>>
ctxVars == <<users, users_id_seq, db, supabaseEnabled, now, rq>>
dirVars == <<global_counter, dq>>
libVars == <<errCall>>
serverVars == <<chainVars, ctxVars, dirVars, libVars>>
queryVars == <<qry>>
socketVars == <<realtimeCounter, connectedUsers, sockets, io>>
compositionVars == <<comp>>
storeVars == <<store, supa>>
appVars == <<queryVars, socketVars, compositionVars, storeVars>>
exceptQuery == <<serverVars, socketVars, compositionVars, storeVars>>
exceptSocket == <<serverVars, queryVars, compositionVars, storeVars>>
exceptComposition == <<serverVars, queryVars, socketVars, storeVars>>
exceptStore == <<serverVars, queryVars, socketVars, compositionVars>>
vars == <<call, cpc, depth, trace, result, response,
          users, users_id_seq, db, supabaseEnabled, now, rq,
          global_counter, dq, errCall, qry,
          realtimeCounter, connectedUsers, sockets, io, comp, store, supa>>

TheOne(S) == CHOOSE x \in S : TRUE

(***************************************************************************)
(* shared/errors.ts                                                        *)
(***************************************************************************)
ErrorCode ==
  { "AUTH_REQUIRED", "AUTH_INVALID_TOKEN", "AUTH_EXPIRED_TOKEN",
    "AUTH_INVALID_CREDENTIALS", "FORBIDDEN", "ADMIN_REQUIRED",
    "INSUFFICIENT_PERMISSIONS", "VALIDATION_ERROR", "INVALID_INPUT",
    "MISSING_REQUIRED_FIELD", "NOT_FOUND", "ALREADY_EXISTS", "CONFLICT",
    "INTERNAL_ERROR", "DATABASE_ERROR", "SERVICE_UNAVAILABLE",
    "EXTERNAL_SERVICE_ERROR", "RATE_LIMITED", "TIMEOUT" }

ErrorMessages(code) ==
  CASE code = "AUTH_REQUIRED" -> "Please log in to continue"
    [] code = "AUTH_INVALID_TOKEN" -> "Invalid authentication token"
    [] code = "AUTH_EXPIRED_TOKEN" -> "Your session has expired, please log in again"
    [] code = "AUTH_INVALID_CREDENTIALS" -> "Invalid email or password"
    [] code = "FORBIDDEN" -> "You don't have permission to perform this action"
    [] code = "ADMIN_REQUIRED" -> "Administrator access required"
    [] code = "INSUFFICIENT_PERMISSIONS" -> "Insufficient permissions for this operation"
    [] code = "VALIDATION_ERROR" -> "Invalid input data"
    [] code = "INVALID_INPUT" -> "The provided input is invalid"
    [] code = "MISSING_REQUIRED_FIELD" -> "A required field is missing"
    [] code = "NOT_FOUND" -> "The requested resource was not found"
    [] code = "ALREADY_EXISTS" -> "This resource already exists"
    [] code = "CONFLICT" -> "The operation conflicts with existing data"
    [] code = "INTERNAL_ERROR" -> "An unexpected error occurred"
    [] code = "DATABASE_ERROR" -> "Database operation failed"
    [] code = "SERVICE_UNAVAILABLE" -> "Service is temporarily unavailable"
    [] code = "EXTERNAL_SERVICE_ERROR" -> "External service error"
    [] code = "RATE_LIMITED" -> "Too many requests, please try again later"
    [] code = "TIMEOUT" -> "The operation timed out"

\* a status map that answers 500 for every server and external kind
getHttpStatusForCode_serverErrors(code) ==
  CASE code \in { "AUTH_REQUIRED", "AUTH_INVALID_TOKEN", "AUTH_EXPIRED_TOKEN",
                  "AUTH_INVALID_CREDENTIALS" } -> 401
    [] code \in { "FORBIDDEN", "ADMIN_REQUIRED", "INSUFFICIENT_PERMISSIONS" } -> 403
    [] code \in { "VALIDATION_ERROR", "INVALID_INPUT", "MISSING_REQUIRED_FIELD" } -> 400
    [] code = "NOT_FOUND" -> 404
    [] code \in { "ALREADY_EXISTS", "CONFLICT" } -> 409
    [] OTHER -> 500

\* statusMap[code] ?? 500
getHttpStatusForCode(code) ==
  CASE code \in { "AUTH_REQUIRED", "AUTH_INVALID_TOKEN", "AUTH_EXPIRED_TOKEN",
                  "AUTH_INVALID_CREDENTIALS" } -> 401
    [] code \in { "FORBIDDEN", "ADMIN_REQUIRED", "INSUFFICIENT_PERMISSIONS" } -> 403
    [] code \in { "VALIDATION_ERROR", "INVALID_INPUT", "MISSING_REQUIRED_FIELD" } -> 400
    [] code = "NOT_FOUND" -> 404
    [] code \in { "ALREADY_EXISTS", "CONFLICT" } -> 409
    [] code \in { "INTERNAL_ERROR", "DATABASE_ERROR" } -> 500
    [] code = "SERVICE_UNAVAILABLE" -> 503
    [] code = "EXTERNAL_SERVICE_ERROR" -> 502
    [] code = "RATE_LIMITED" -> 429
    [] code = "TIMEOUT" -> 504
    [] OTHER -> 500

(***************************************************************************)
(* Values that can be thrown.  Every one is a record with the same fields; *)
(* `type` tells the class: "TRPCError", "AppError", "Error" (a generic     *)
(* exception) or "Value" (a thrown value that is no Error; `message` holds *)
(* its String() form).                                                     *)
(***************************************************************************)
GenericError(message) ==
  [type |-> "Error", code |-> "", statusCode |-> 0, message |-> message, cause |-> {},
   details |-> {}, timestamp |-> {}]

ThrownValue(str) ==
  [type |-> "Value", code |-> "", statusCode |-> 0, message |-> str, cause |-> {},
   details |-> {}, timestamp |-> {}]

\* Date.prototype.toISOString(): the text form of an instant
toISOString(t) == <<"ISO-8601", t>>

\* new AppError({code, message?, cause?, details?, statusCode?}); the
\* constructor reads the clock for this.timestamp
AppError(code, message, cause, details, statusCode) ==
  [type |-> "AppError",
   code |-> code,
   message |-> IF message = {} THEN ErrorMessages(code) ELSE TheOne(message),
   statusCode |-> IF statusCode = {} THEN getHttpStatusForCode(code)
                                     ELSE TheOne(statusCode),
   cause |-> cause,
   details |-> details,
   timestamp |-> {toISOString(now)}]

\* AppError.from without its first test: an application error is wrapped
\* like any other Error
AppErrorFrom_rewraps(error, defaultCode) ==
  IF error.type \in {"AppError", "Error", "TRPCError"}
  THEN AppError(defaultCode, {error.message}, {error}, {}, {})
  ELSE AppError(defaultCode, {error.message}, {}, {}, {})

\* AppError.from(error, defaultCode)
AppErrorFrom(error, defaultCode) ==
  IF error.type = "AppError" THEN error
  ELSE IF error.type \in {"Error", "TRPCError"}
       THEN AppError(defaultCode, {error.message}, {error}, {}, {})
       ELSE AppError(defaultCode, {error.message}, {}, {}, {})

\* Errors.authRequired(), Errors.adminRequired()
authRequired == AppError("AUTH_REQUIRED", {}, {}, {}, {401})
adminRequired == AppError("ADMIN_REQUIRED", {}, {}, {}, {403})

(***************************************************************************)
(* server/lib/trpc.ts                                                      *)
(***************************************************************************)
TRPCCode ==
  { "BAD_REQUEST", "UNAUTHORIZED", "FORBIDDEN", "NOT_FOUND", "CONFLICT",
    "TOO_MANY_REQUESTS", "INTERNAL_SERVER_ERROR", "BAD_GATEWAY", "TIMEOUT" }

TRPCError(code, message, cause) ==
  [type |-> "TRPCError", code |-> code, statusCode |-> 0,
   message |-> message, cause |-> cause, details |-> {}, timestamp |-> {}]

\* codeMap[error.statusCode] ?? "INTERNAL_SERVER_ERROR"
codeMap(statusCode) ==
  CASE statusCode = 400 -> "BAD_REQUEST"
    [] statusCode = 401 -> "UNAUTHORIZED"
    [] statusCode = 403 -> "FORBIDDEN"
    [] statusCode = 404 -> "NOT_FOUND"
    [] statusCode = 409 -> "CONFLICT"
    [] statusCode = 429 -> "TOO_MANY_REQUESTS"
    [] statusCode = 500 -> "INTERNAL_SERVER_ERROR"
    [] statusCode = 502 -> "BAD_GATEWAY"
    [] statusCode = 503 -> "INTERNAL_SERVER_ERROR"
    [] statusCode = 504 -> "TIMEOUT"
    [] OTHER -> "INTERNAL_SERVER_ERROR"

toTRPCError(error) == TRPCError(codeMap(error.statusCode), error.message, {error})

\* A result travelling up the chain: kind "ok" (a value was returned),
\* "thrown" (an exception is propagating) or "failed" (the framework's
\* {ok: false, error} result object); "none" while nothing was produced yet.
NoError == [type |-> "none", code |-> "", statusCode |-> 0, message |-> "", cause |-> {},
            details |-> {}, timestamp |-> {}]
NoResult == [kind |-> "none", error |-> NoError, data |-> {}]
Returned(data) == [kind |-> "ok", error |-> NoError, data |-> data]
Thrown(error) == [kind |-> "thrown", error |-> error, data |-> {}]
Failed(error) == [kind |-> "failed", error |-> error, data |-> {}]

\* requireUser without its check of ctx.user
requireUser_unchecked(ctx) == [proceed |-> TRUE, out |-> NoResult]

\* requireUser: the guard's decision on a context
requireUser(ctx) ==
  IF ctx.user = {}
  THEN [proceed |-> FALSE, out |-> Thrown(toTRPCError(authRequired))]
  ELSE [proceed |-> TRUE, out |-> NoResult]

\* requireAdmin that tests only that a user is present
requireAdmin_anyUser(ctx) ==
  IF ctx.user = {}
  THEN [proceed |-> FALSE, out |-> Thrown(toTRPCError(authRequired))]
  ELSE [proceed |-> TRUE, out |-> NoResult]

\* requireAdmin: the guard's decision on a context
requireAdmin(ctx) ==
  IF ctx.user = {}
  THEN [proceed |-> FALSE, out |-> Thrown(toTRPCError(authRequired))]
  ELSE IF TheOne(ctx.user).role # "admin"
       THEN [proceed |-> FALSE, out |-> Thrown(toTRPCError(adminRequired))]
       ELSE [proceed |-> TRUE, out |-> NoResult]

\* errorHandler whose catch block rethrows what it caught
errorHandler_rethrow(inner) == inner

\* errorHandler: what the wrapper produces from what `await next()` produced;
\* only a rejection enters the catch block.
errorHandler(inner) ==
  IF inner.kind # "thrown" THEN inner
  ELSE IF inner.error.type = "TRPCError" THEN Thrown(inner.error)
  ELSE IF inner.error.type = "AppError" THEN Thrown(toTRPCError(inner.error))
  ELSE Thrown(toTRPCError(AppErrorFrom(inner.error, "INTERNAL_ERROR")))

\* The middlewares of each procedure builder, outermost first.
publicProcedure == << >>
\* the guard attached before the error handler
protectedProcedure_guardFirst == <<"requireUser", "errorHandler">>
protectedProcedure == <<"errorHandler", "requireUser">>
adminProcedure == <<"errorHandler", "requireAdmin">>

\* system.health: a public procedure with an input schema
systemHealth == publicProcedure \o <<"input">>

Procedures == {"public", "protected", "admin", "health"}

chain(proc) ==
  CASE proc = "public" -> publicProcedure
    [] proc = "protected" -> protectedProcedure
    [] proc = "admin" -> adminProcedure
    [] proc = "health" -> systemHealth

\* healthInputSchema = z.object({timestamp: z.number().min(0, "timestamp
\* cannot be negative")}): the issues found in an input
healthInputSchema(input) ==
  IF input.timestamp = {} THEN {"Required"}
  ELSE IF TheOne(input.timestamp) < 0 THEN {"timestamp cannot be negative"}
  ELSE {}

\* The input step of a procedure with a schema: the framework parses the
\* input and, on issues, throws a TRPCError BAD_REQUEST whose cause is the
\* ZodError.
inputParser(input) ==
  LET issues == healthInputSchema(input)
  IN IF issues = {}
     THEN [proceed |-> TRUE, out |-> NoResult]
     ELSE [proceed |-> FALSE,
           out |-> Thrown(TRPCError("BAD_REQUEST", TheOne(issues),
                                    {GenericError(TheOne(issues))}))]

\* The frame at index d of a procedure: a middleware, or past them the handler.
frameAt(proc, d) == IF d <= Len(chain(proc)) THEN chain(proc)[d] ELSE "handler"

(***************************************************************************)
(* The framework underneath t.procedure.  A value thrown below the         *)
(* procedure boundary reaches the caller as a TRPCError: one that is not   *)
(* a TRPCError is wrapped as INTERNAL_SERVER_ERROR with the value as its   *)
(* cause.  The source's errorHandler is written for a next() that rejects  *)
(* when an inner frame throws; the framework may instead catch in every    *)
(* frame and hand the outer middleware a failed result.  call.nextRejects  *)
(* chooses between the two, per call.                                      *)
(***************************************************************************)
getTRPCErrorFromUnknown(error) ==
  IF error.type = "TRPCError" THEN error
  ELSE TRPCError("INTERNAL_SERVER_ERROR", error.message,
                 IF error.type = "Value" THEN {} ELSE {error})

\* the HTTP status the framework answers with for a transport code
getHTTPStatusCodeFromError(code) ==
  CASE code = "BAD_REQUEST" -> 400
    [] code = "UNAUTHORIZED" -> 401
    [] code = "FORBIDDEN" -> 403
    [] code = "NOT_FOUND" -> 404
    [] code = "TIMEOUT" -> 408
    [] code = "CONFLICT" -> 409
    [] code = "TOO_MANY_REQUESTS" -> 429
    [] code = "BAD_GATEWAY" -> 502
    [] OTHER -> 500

\* what the frame hands to the frame above it
frameOutput(nextRejects, r) ==
  IF r.kind = "thrown" /\ ~nextRejects
  THEN Failed(getTRPCErrorFromUnknown(r.error))
  ELSE r

\* errorFormatter that stamps every envelope with the time of formatting
errorFormatter_stampNow(error) ==
  LET appError == {c \in error.cause : c.type = "AppError"}
  IN [ok |-> FALSE,
      code |-> IF appError # {} THEN TheOne(appError).code ELSE error.code,
      trpcCode |-> error.code,
      message |-> error.message,
      details |-> IF appError # {} THEN TheOne(appError).details ELSE {},
      timestamp |-> {toISOString(now)},
      data |-> {}]

\* errorFormatter({shape, error}): the envelope for a TRPCError.  shape
\* carries the error's message and, in data.code, its transport code;
\* code, details and timestamp are the fields the formatter adds to data.
errorFormatter(error) ==
  LET appError == {c \in error.cause : c.type = "AppError"}
  IN [ok |-> FALSE,
      code |-> IF appError # {} THEN TheOne(appError).code ELSE error.code,
      trpcCode |-> error.code,
      message |-> error.message,
      details |-> IF appError # {} THEN TheOne(appError).details ELSE {},
      timestamp |-> IF appError # {} THEN TheOne(appError).timestamp
                                     ELSE {toISOString(now)},
      data |-> {}]

NoResponse == [ok |-> FALSE, code |-> "", trpcCode |-> "", message |-> "",
               details |-> {}, timestamp |-> {}, data |-> {}]
Success(data) == [ok |-> TRUE, code |-> "", trpcCode |-> "", message |-> "",
                  details |-> {}, timestamp |-> {}, data |-> data]

\* the procedure boundary: the caller gets the data or the formatted error
resolve(r) ==
  IF r.kind = "ok" THEN Success(r.data)
  ELSE errorFormatter(getTRPCErrorFromUnknown(r.error))

(***************************************************************************)
(* Inputs of a call                                                        *)
(***************************************************************************)
\* createMockUser(overrides) of server/auth.test.ts
MockUser(role) ==
  [id |-> 1, supabaseId |-> "test-supabase-id", email |-> "test@example.com",
   name |-> "Test User", loginMethod |-> "email", role |-> role,
   createdAt |-> 0, updatedAt |-> 0, lastSignedIn |-> 0]

ContextUsers == { {}, {MockUser("user")}, {MockUser("admin")} }

\* What a handler can do: return its context's user, or throw.
HandlerThrows ==
  { TRPCError(c, "from handler", {}) : c \in {"BAD_REQUEST", "NOT_FOUND"} }
  \cup { AppError(c, {}, {}, {}, st) : c \in ErrorCode, st \in {{}, {418}} }   \* 418: no entry in codeMap
  \cup { AppError("INVALID_INPUT", {"Invalid value for email"}, {},
                  {[field |-> "email"]}, {400}),                   \* Errors.invalidInput("email")
         AppError("CONFLICT", {"stale"}, {GenericError("boom")},
                  {[field |-> "version"]}, {418}) }
  \cup { GenericError("boom"), ThrownValue("42") }

Outcomes ==
  { [throws |-> FALSE, error |-> NoError] }
  \cup { [throws |-> TRUE, error |-> e] : e \in HandlerThrows }

\* the inputs sent to system.health
HealthInputs == { [timestamp |-> t] : t \in { {}, {0 - 2}, {0 - 1}, {0}, {1} } }

NoInput == [timestamp |-> {}]

NoCall == [proc |-> "none", user |-> {}, outcome |-> [throws |-> FALSE, error |-> NoError],
           nextRejects |-> FALSE, input |-> NoInput]

\* auth.me that answers as for an anonymous caller
me_anonymous(c) == Returned({})

\* auth.me: publicProcedure.query(opts => opts.ctx.user)
me(c) == Returned(c.user)

\* system.health: the handler answers {ok: true}
health(c) == Returned({[ok |-> TRUE]})

\* the handler of the procedure, run with the context the chain hands it;
\* an application error it throws is constructed when it runs
handler(c) ==
  IF c.proc = "health" THEN health(c)
  ELSE IF ~c.outcome.throws THEN me(c)
  ELSE IF c.outcome.error.type = "AppError"
       THEN Thrown([c.outcome.error EXCEPT !.timestamp = {toISOString(now)}])
       ELSE Thrown(c.outcome.error)

(***************************************************************************)
(* One call through the chain                                              *)
(***************************************************************************)
\* a caller invokes a procedure
Call ==
  /\ cpc = "idle"
  /\ \E p \in Procedures, u \in ContextUsers, o \in Outcomes, m \in BOOLEAN,
        i \in HealthInputs \cup {NoInput} :
       /\ p = "health" => (i \in HealthInputs /\ ~o.throws)
       /\ p # "health" => i = NoInput
       /\ call' = [proc |-> p, user |-> u, outcome |-> o, nextRejects |-> m,
                   input |-> i]
  /\ cpc' = "down"
  /\ depth' = 1
  /\ trace' = << >>
  /\ result' = NoResult
  /\ response' = NoResponse
  /\ UNCHANGED <<ctxVars, dirVars, libVars, appVars>>

\* errorHandler is entered: try { return await next() }
EnterErrorHandler ==
  /\ cpc = "down"
  /\ frameAt(call.proc, depth) = "errorHandler"
  /\ trace' = Append(trace, "errorHandler")
  /\ depth' = depth + 1
  /\ UNCHANGED <<call, cpc, result, response>>
  /\ UNCHANGED <<ctxVars, dirVars, libVars, appVars>>

\* a guard is entered: it throws, or calls next
EnterGuard ==
  /\ cpc = "down"
  /\ frameAt(call.proc, depth) \in {"requireUser", "requireAdmin"}
  /\ LET g == IF frameAt(call.proc, depth) = "requireUser"
              THEN requireUser(call) ELSE requireAdmin(call)
     IN /\ trace' = Append(trace, frameAt(call.proc, depth))
        /\ IF g.proceed
           THEN /\ depth' = depth + 1
                /\ UNCHANGED <<cpc, result>>
           ELSE /\ cpc' = "up"
                /\ result' = frameOutput(call.nextRejects, g.out)
                /\ UNCHANGED depth
  /\ UNCHANGED <<call, response>>
  /\ UNCHANGED <<ctxVars, dirVars, libVars, appVars>>

\* the input step is entered: the input is parsed against the schema
EnterInput ==
  /\ cpc = "down"
  /\ frameAt(call.proc, depth) = "input"
  /\ LET g == inputParser(call.input)
     IN /\ trace' = Append(trace, "input")
        /\ IF g.proceed
           THEN /\ depth' = depth + 1
                /\ UNCHANGED <<cpc, result>>
           ELSE /\ cpc' = "up"
                /\ result' = frameOutput(call.nextRejects, g.out)
                /\ UNCHANGED depth
  /\ UNCHANGED <<call, response>>
  /\ UNCHANGED <<ctxVars, dirVars, libVars, appVars>>

\* the handler runs
RunHandler ==
  /\ cpc = "down"
  /\ frameAt(call.proc, depth) = "handler"
  /\ trace' = Append(trace, "handler")
  /\ cpc' = "up"
  /\ result' = frameOutput(call.nextRejects, handler(call))
  /\ UNCHANGED <<call, depth, response>>
  /\ UNCHANGED <<ctxVars, dirVars, libVars, appVars>>

\* the frame above receives what next() produced and finishes
Unwind ==
  /\ cpc = "up"
  /\ depth > 1
  /\ LET outer == frameAt(call.proc, depth - 1)
         out == IF outer = "errorHandler" THEN errorHandler(result) ELSE result
     IN result' = frameOutput(call.nextRejects, out)
  /\ depth' = depth - 1
  /\ UNCHANGED <<call, cpc, trace, response>>
  /\ UNCHANGED <<ctxVars, dirVars, libVars, appVars>>

\* the outermost frame has finished: the caller gets its answer
Finish ==
  /\ cpc = "up"
  /\ depth = 1
  /\ response' = resolve(result)
  /\ cpc' = "done"
  /\ UNCHANGED <<call, depth, trace, result>>
  /\ UNCHANGED <<ctxVars, dirVars, libVars, appVars>>

\* the next call
Reset ==
  /\ cpc = "done"
  /\ call' = NoCall
  /\ cpc' = "idle"
  /\ depth' = 0
  /\ trace' = << >>
  /\ result' = NoResult
  /\ response' = NoResponse
  /\ UNCHANGED <<ctxVars, dirVars, libVars, appVars>>


(***************************************************************************)
(* Claims about the middleware chain (checked under SpecChain)             *)
(***************************************************************************)
InTrace(f) == \E i \in 1..Len(trace) : trace[i] = f

\* the next step after the guard was called
NextCalledAfterGuard == (cpc = "down" /\ depth = 3) \/ InTrace("handler")

\* the failure in flight is the TRPCError made from the application error e
FailsWith(e) ==
  /\ result.kind \in {"thrown", "failed"}
  /\ result.error.cause # {}
  /\ result.error = toTRPCError([e EXCEPT !.timestamp = TheOne(result.error.cause).timestamp])
  /\ cpc = "done" => (~response.ok /\ response.code = e.code
                      /\ response.trpcCode = codeMap(e.statusCode))

\* C1: requireUser on a context whose user is absent fails with an
\* application error of kind AUTH_REQUIRED and status 401 and never calls
\* the next step; on a context whose user is present it calls the next step.
C1_RequireUser ==
  InTrace("requireUser") =>
    IF call.user = {}
    THEN /\ ~InTrace("handler")
         /\ FailsWith(authRequired)
         /\ TheOne(result.error.cause).code = "AUTH_REQUIRED"
         /\ TheOne(result.error.cause).statusCode = 401
    ELSE NextCalledAfterGuard

C1_Witness ==
  /\ cpc = "done" /\ call.proc = "protected" /\ call.user = {}
  /\ InTrace("requireUser") /\ response.code = "AUTH_REQUIRED"

\* C2: requireAdmin fails with AUTH_REQUIRED (401) for an absent user, with
\* ADMIN_REQUIRED and status 403 (transport code FORBIDDEN, never the
\* generic INTERNAL_SERVER_ERROR) for a present user whose role is not
\* "admin", and calls the next step for an admin.
C2_RequireAdmin ==
  InTrace("requireAdmin") =>
    IF call.user = {}
    THEN /\ ~InTrace("handler")
         /\ FailsWith(authRequired)
         /\ TheOne(result.error.cause).statusCode = 401
    ELSE IF TheOne(call.user).role # "admin"
    THEN /\ ~InTrace("handler")
         /\ FailsWith(adminRequired)
         /\ TheOne(result.error.cause).code = "ADMIN_REQUIRED"
         /\ TheOne(result.error.cause).statusCode = 403
         /\ result.error.code = "FORBIDDEN"
         /\ result.error.code # "INTERNAL_SERVER_ERROR"
    ELSE NextCalledAfterGuard

C2_Witness ==
  /\ cpc = "done" /\ call.proc = "admin"
  /\ call.user = {MockUser("user")}
  /\ response.code = "ADMIN_REQUIRED" /\ response.trpcCode = "FORBIDDEN"

KnownCode == ErrorCode \cup TRPCCode

\* C8: whatever the handler or the guard of a procedure wrapped by
\* errorHandler does, the failure that leaves the wrapper is a TRPCError
\* with a transport code, and the envelope the caller gets carries a known
\* code.
C8_NoRawEscape ==
  /\ (cpc = "up" /\ depth = 1 /\ frameAt(call.proc, 1) = "errorHandler"
      /\ result.kind # "ok")
       => /\ result.error.type = "TRPCError"
          /\ result.error.code \in TRPCCode
  /\ (cpc = "done" /\ InTrace("errorHandler") /\ ~response.ok)
       => /\ response.code \in KnownCode
          /\ response.trpcCode \in TRPCCode

C8_Witness ==
  /\ cpc = "done" /\ call.proc = "admin" /\ call.nextRejects
  /\ call.outcome.throws /\ call.outcome.error.type = "Error"
  /\ InTrace("handler")
  /\ response.code = "INTERNAL_ERROR"

\* C9, as claimed: a public procedure passes through errorHandler, and a
\* failure of its handler reaches the caller as the same envelope that a
\* procedure wrapped by errorHandler delivers for that failure.
C9_PublicNormalized ==
  (call.proc = "public" /\ InTrace("handler") /\ call.outcome.throws) =>
    /\ InTrace("errorHandler")
    /\ cpc = "done" =>
         response = resolve(frameOutput(call.nextRejects,
                       errorHandler(frameOutput(call.nextRejects, handler(call)))))

\* C10: in a guarded procedure the frames are entered in the order
\* errorHandler, guard, handler; a guard that failed did so inside
\* errorHandler, its failure leaves the wrapper as a TRPCError, and the
\* handler is not entered in that call.
GuardOf(proc) == IF proc = "protected" THEN "requireUser" ELSE "requireAdmin"

GuardFailed ==
  /\ call.proc \in {"protected", "admin"}
  /\ InTrace(GuardOf(call.proc))
  /\ IF call.proc = "protected" THEN ~requireUser(call).proceed
                                ELSE ~requireAdmin(call).proceed

C10_ChainOrder ==
  call.proc \in {"protected", "admin"} =>
    /\ trace = SubSeq(<<"errorHandler", GuardOf(call.proc), "handler">>, 1, Len(trace))
    /\ GuardFailed =>
         /\ ~InTrace("handler")
         /\ trace[1] = "errorHandler"
         /\ (cpc = "up" /\ depth = 1) => result.error.type = "TRPCError"
         /\ cpc = "done" => response.code \in {"AUTH_REQUIRED", "ADMIN_REQUIRED"}

C10_Witness ==
  /\ cpc = "done" /\ call.proc = "protected" /\ GuardFailed
  /\ trace = <<"errorHandler", "requireUser">>

\* the application error in flight: the failure itself or its cause
RaisedAppError ==
  IF result.error.type = "AppError" THEN {result.error}
  ELSE {e \in result.error.cause : e.type = "AppError"}

\* the handler of a guarded procedure ran and threw an application error
HandlerRaisedAppError ==
  /\ call.proc \in {"protected", "admin"}
  /\ InTrace("handler")
  /\ call.outcome.throws /\ call.outcome.error.type = "AppError"

\* C11: every failed call is answered with an envelope that has a code, a
\* message and a timestamp (details when the error has them).  When a guard
\* or the handler of a guarded procedure raised an application error of
\* kind K, that error is constructed with the clock's time of that step,
\* travels up unchanged, and the envelope's code is K, its message and
\* details are the error's and its timestamp is the error's; an error whose
\* status code is not in codeMap is delivered the same way, with transport
\* code INTERNAL_SERVER_ERROR.
C11_Envelope ==
  /\ [](/\ (cpc = "done" /\ ~response.ok)
             => /\ response.code # "" /\ response.trpcCode \in TRPCCode
                /\ response.timestamp # {}
                /\ \A e \in RaisedAppError :
                     /\ response.code = e.code
                     /\ response.message = e.message
                     /\ response.details = e.details
                     /\ response.timestamp = e.timestamp
                     /\ codeMap(e.statusCode) = "INTERNAL_SERVER_ERROR"
                          => response.trpcCode = "INTERNAL_SERVER_ERROR"
        /\ (cpc \in {"up", "done"} /\ HandlerRaisedAppError)
             => \E e \in RaisedAppError :
                  /\ e.code = call.outcome.error.code
                  /\ e.message = call.outcome.error.message
                  /\ e.details = call.outcome.error.details
                  /\ e.statusCode = call.outcome.error.statusCode
        /\ (cpc \in {"up", "done"} /\ GuardFailed)
             => \E e \in RaisedAppError :
                  e.code \in {"AUTH_REQUIRED", "ADMIN_REQUIRED"}
        /\ (cpc = "done" /\ (HandlerRaisedAppError \/ GuardFailed)) => ~response.ok)
  /\ [][/\ (cpc = "down" /\ cpc' = "up")
             => \A e \in RaisedAppError' : e.timestamp = {toISOString(now)}
        /\ (cpc = "up" /\ cpc' \in {"up", "done"}
            /\ (HandlerRaisedAppError \/ GuardFailed))
             => RaisedAppError' = RaisedAppError
       ]_vars

\* an application error with details and a status code outside codeMap,
\* thrown by the handler of a guarded procedure, answered after the clock
\* moved on
C11_Witness ==
  /\ cpc = "done" /\ call.proc = "protected" /\ HandlerRaisedAppError
  /\ call.outcome.error.code = "CONFLICT"
  /\ call.outcome.error.statusCode = 418
  /\ response.code = "CONFLICT"
  /\ response.trpcCode = "INTERNAL_SERVER_ERROR"
  /\ response.message = "stale"
  /\ response.details = {[field |-> "version"]}
  /\ response.timestamp = {toISOString(0)}
  /\ now = 1

C13_AuthMe ==
  (call.proc = "public" /\ ~call.outcome.throws) =>
    /\ trace = SubSeq(<<"handler">>, 1, Len(trace))
    /\ cpc = "done" =>
         /\ response.ok
         /\ response.data = call.user
         /\ response.code = "" /\ response.details = {}

C13_Witness ==
  /\ cpc = "done" /\ call.proc = "public" /\ ~call.outcome.throws
  /\ call.user = {MockUser("admin")}
  /\ response.ok
  /\ response.data # {}
  /\ TheOne(response.data).role = "admin"
  /\ TheOne(response.data).email = "test@example.com"

(***************************************************************************)
(* drizzle/schema.ts, server/db.ts: the user directory                     *)
(***************************************************************************)
\* SQL NULL / JavaScript null in a text column
Null == "<null>"

\* value ?? null
OrNull(opt) == IF opt = {} THEN Null ELSE TheOne(opt)

\* drizzle(postgres(ENV.databaseUrl)): the handle on the client-th client
\* this process has created
drizzle(client) == [client |-> client]

\* getDb() without its if (!_db): every call creates a client
getDb_recreates(handle, connects) ==
  IF connects
  THEN {drizzle(IF handle = {} THEN 1 ELSE TheOne(handle).client + 1)}
  ELSE {}

\* getDb(): the handle after the call, which is the one returned; connects
\* says whether creating the client succeeds when there is no handle yet.
getDb(handle, connects) ==
  IF handle = {} THEN (IF connects THEN {drizzle(1)} ELSE {}) ELSE handle

\* upsertUser: the row to insert.  d is new Date().
upsertValues(user, d) ==
  [supabaseId |-> TheOne(user.supabaseId),
   name |-> user.name,
   email |-> user.email,
   loginMethod |-> user.loginMethod,
   lastSignedIn |-> IF user.lastSignedIn = {} THEN {d} ELSE user.lastSignedIn,
   role |-> user.role]

\* assignNullable that returns on null as it does on undefined
upsertUpdateSet_skipNull(user, d) ==
  LET text(v) == IF v = {Null} THEN {} ELSE v
      set == [name |-> text(user.name), email |-> text(user.email),
              loginMethod |-> text(user.loginMethod),
              lastSignedIn |-> user.lastSignedIn, role |-> user.role]
  IN IF \A f \in DOMAIN set : set[f] = {}
     THEN [set EXCEPT !.lastSignedIn = {d}]
     ELSE set

\* updateSet left empty when the call supplies no field
upsertUpdateSet_noStamp(user, d) ==
  [name |-> user.name, email |-> user.email, loginMethod |-> user.loginMethod,
   lastSignedIn |-> user.lastSignedIn, role |-> user.role]

\* upsertUser: the columns to set on conflict.  d is new Date().
upsertUpdateSet(user, d) ==
  LET set == [name |-> user.name, email |-> user.email,
              loginMethod |-> user.loginMethod,
              lastSignedIn |-> user.lastSignedIn, role |-> user.role]
  IN IF \A f \in DOMAIN set : set[f] = {}
     THEN [set EXCEPT !.lastSignedIn = {d}]
     ELSE set

\* a column after SET: the given value, or the old one when not in the set
SetColumn(old, opt) == IF opt = {} THEN old ELSE TheOne(opt)

\* a plain insert: no conflict target, no UNIQUE constraint on supabase_id
insertOnConflictDoUpdate_plainInsert(table, values, set, id, t) ==
  table \cup
    { [id |-> id,
       supabaseId |-> values.supabaseId,
       name |-> OrNull(values.name),
       email |-> OrNull(values.email),
       loginMethod |-> OrNull(values.loginMethod),
       role |-> IF values.role = {} THEN "user" ELSE TheOne(values.role),
       createdAt |-> t,
       updatedAt |-> t,
       lastSignedIn |-> TheOne(values.lastSignedIn)] }

\* db.insert(users).values(values).onConflictDoUpdate({target: users.supabaseId,
\* set}) on a table whose supabase_id is UNIQUE; id is the sequence's next
\* value, t the store's now().
insertOnConflictDoUpdate(table, values, set, id, t) ==
  LET hit == {r \in table : r.supabaseId = values.supabaseId}
  IN IF hit = {}
     THEN table \cup
          { [id |-> id,
             supabaseId |-> values.supabaseId,
             name |-> OrNull(values.name),
             email |-> OrNull(values.email),
             loginMethod |-> OrNull(values.loginMethod),
             role |-> IF values.role = {} THEN "user" ELSE TheOne(values.role),
             createdAt |-> t,
             updatedAt |-> t,
             lastSignedIn |-> TheOne(values.lastSignedIn)] }
     ELSE (table \ hit) \cup
          { [r EXCEPT !.name = SetColumn(r.name, set.name),
                      !.email = SetColumn(r.email, set.email),
                      !.loginMethod = SetColumn(r.loginMethod, set.loginMethod),
                      !.role = SetColumn(r.role, set.role),
                      !.lastSignedIn = SetColumn(r.lastSignedIn, set.lastSignedIn)]
            : r \in hit }

\* The sequence after the statement.  Only the ids given to rows are
\* counted: a value drawn by an insert that then hits the conflict is a
\* gap of the sequence and is given to no row.
nextId(table, user, seq) ==
  IF \E r \in table : r.supabaseId = TheOne(user.supabaseId) THEN seq ELSE seq + 1

\* db.select().from(users).where(eq(users.supabaseId, id)).limit(1), then
\* result.length > 0 ? result[0] : undefined
selectBySupabaseId(table, id) ==
  LET hit == {r \in table : r.supabaseId = id}
  IN IF hit = {} THEN {} ELSE {CHOOSE r \in hit : TRUE}

(***************************************************************************)
(* The identity provider (supabaseAdmin.auth.getUser) and the request      *)
(***************************************************************************)
\* The Authorization header: absent, or a scheme and the text after
\* "<scheme> ".  startsWith("Bearer ") is case-sensitive.
Tokens == {"tokA", "tokB", "expired"}

Headers ==
  { {} }
  \cup { {[scheme |-> sc, credentials |-> "tokA"]} : sc \in {"Basic", "bearer"} }
  \cup { {[scheme |-> "Bearer", credentials |-> t]} : t \in Tokens }

\* the scheme compared without regard to case
startsWithBearer_ignoreCase(authHeader) ==
  authHeader # {} /\ TheOne(authHeader).scheme \in {"Bearer", "bearer"}

\* authHeader?.startsWith("Bearer ")
startsWithBearer(authHeader) ==
  authHeader # {} /\ TheOne(authHeader).scheme = "Bearer"

\* authHeader.slice(7)
bearerToken(authHeader) == TheOne(authHeader).credentials

\* getSupabaseAdmin(): the client, or null when Supabase is not configured
getSupabaseAdmin(enabled) == IF ~enabled THEN {} ELSE {"client"}

\* The users the provider knows, by token.
SupabaseUser(token) ==
  CASE token = "tokA" ->
         {[id |-> "subA", email |-> {"a@example.com"}, full_name |-> {"Ann Full"},
           name |-> {"ann"}, provider |-> {"google"}]}
    [] token = "tokB" ->
         {[id |-> "subB", email |-> {}, full_name |-> {},
           name |-> {"bob"}, provider |-> {}]}
    [] OTHER -> {}

NoSupabaseUser ==
  [id |-> "", email |-> {}, full_name |-> {}, name |-> {}, provider |-> {}]

\* What awaiting getUser(token) can give: it throws, or it resolves to
\* {data: {user}, error}; only a token the provider accepts gives a user.
GetUserResults(token) ==
  { [threw |-> TRUE, user |-> {}, error |-> {}],
    [threw |-> FALSE, user |-> {}, error |-> {"AuthApiError"}],
    [threw |-> FALSE, user |-> {}, error |-> {}] }
  \cup { [threw |-> FALSE, user |-> {u}, error |-> {}] : u \in SupabaseUser(token) }

\* user_metadata.name taken before user_metadata.full_name
firstTimeUser_nameFirst(su, d) ==
  [supabaseId |-> {su.id},
   email |-> {OrNull(su.email)},
   name |-> {IF su.name # {} THEN TheOne(su.name) ELSE OrNull(su.full_name)},
   loginMethod |-> {OrNull(su.provider)},
   lastSignedIn |-> {d},
   role |-> {}]

\* the argument of upsertUser for a first-time user (context.ts:31-37)
firstTimeUser(su, d) ==
  [supabaseId |-> {su.id},
   email |-> {OrNull(su.email)},
   name |-> {IF su.full_name # {} THEN TheOne(su.full_name) ELSE OrNull(su.name)},
   loginMethod |-> {OrNull(su.provider)},
   lastSignedIn |-> {d},
   role |-> {}]

\* the profile sent again on every request
knownUser_withProfile(su, d) ==
  [supabaseId |-> {su.id},
   email |-> {OrNull(su.email)},
   name |-> {IF su.full_name # {} THEN TheOne(su.full_name) ELSE OrNull(su.name)},
   loginMethod |-> {OrNull(su.provider)},
   lastSignedIn |-> {d},
   role |-> {}]

\* the argument of upsertUser for a user already known (context.ts:41-44)
knownUser(su, d) ==
  [supabaseId |-> {su.id}, email |-> {}, name |-> {}, loginMethod |-> {},
   lastSignedIn |-> {d}, role |-> {}]

NoInsertUser ==
  [supabaseId |-> {}, email |-> {}, name |-> {}, loginMethod |-> {},
   lastSignedIn |-> {}, role |-> {}]

(***************************************************************************)
(* server/lib/context.ts: createContext, one step per await                *)
(***************************************************************************)
\* the clock's last value
MaxTime == 1

\* the slots of the requests that can be in flight at the same time; an
\* arriving request is given the lowest free slot
Requests == {1, 2}

\* The locals of one createContext call.  caught, path, wrote, inserted and
\* noDb record what happened in the call; raised says that the call threw
\* to its caller instead of returning a context.
IdleRequest ==
  [pc |-> "idle", authHeader |-> {}, supabaseUser |-> NoSupabaseUser,
   dbUser |-> {}, arg |-> NoInsertUser, d |-> 0, user |-> {},
   raised |-> FALSE, caught |-> "", path |-> "", wrote |-> FALSE,
   inserted |-> FALSE, noDb |-> FALSE]

\* let user: User | null = null
newContext(authHeader) ==
  [IdleRequest EXCEPT !.pc = "start", !.authHeader = authHeader]

\* return {req, res, user}
returnContext(r) == [r EXCEPT !.pc = "done"]

\* the try block without its catch: the exception leaves createContext
catchBlock_rethrow(r, what) ==
  [r EXCEPT !.pc = "done", !.raised = TRUE, !.caught = what]

\* catch (error) { user = null }, then the return
catchBlock(r, what) == returnContext([r EXCEPT !.user = {}, !.caught = what])

\* the first-time branch without its second getUserBySupabaseId
afterUpsert_noReread(r) == returnContext([r EXCEPT !.user = r.dbUser])

\* after await db.upsertUser(...) returned: re-read, or user = dbUser ?? null
afterUpsert(r) ==
  IF r.path = "create"
  THEN [r EXCEPT !.pc = "reread"]
  ELSE returnContext([r EXCEPT !.user = r.dbUser])

\* No returned context is waiting for its caller.  Returning resolves the
\* promise the caller awaits, and the caller takes the context in the same
\* turn, before any other completion is handled.
Quiet == \A q \in Requests : rq[q].pc # "done"

\* a request arrives: header and client are read; without a bearer
\* credential or without a client the context is returned at once
StartContext(p) ==
  /\ Quiet
  /\ rq[p].pc = "idle"
  /\ \A q \in Requests : q < p => rq[q].pc # "idle"
  /\ \E h \in Headers :
       LET r == newContext(h)
           supabaseAdmin == getSupabaseAdmin(supabaseEnabled)
       IN rq' = [rq EXCEPT ![p] =
                   IF startsWithBearer(h) /\ supabaseAdmin # {}
                   THEN [r EXCEPT !.pc = "verify"]
                   ELSE returnContext(r)]
  /\ UNCHANGED <<users, users_id_seq, db, supabaseEnabled, now>>
  /\ UNCHANGED <<chainVars, dirVars, libVars, appVars>>

\* await supabaseAdmin.auth.getUser(token)
Verify(p) ==
  /\ Quiet
  /\ rq[p].pc = "verify"
  /\ \E res \in GetUserResults(bearerToken(rq[p].authHeader)) :
       rq' = [rq EXCEPT ![p] =
                IF res.threw THEN catchBlock(rq[p], "getUser")
                ELSE IF res.error = {} /\ res.user # {}
                THEN [rq[p] EXCEPT !.pc = "lookup", !.supabaseUser = TheOne(res.user)]
                ELSE returnContext(rq[p])]
  /\ UNCHANGED <<users, users_id_seq, db, supabaseEnabled, now>>
  /\ UNCHANGED <<chainVars, dirVars, libVars, appVars>>

\* let dbUser = await db.getUserBySupabaseId(supabaseUser.id)
Lookup(p) ==
  /\ Quiet
  /\ rq[p].pc = "lookup"
  /\ \E connects \in BOOLEAN, fails \in BOOLEAN :
       LET handle == getDb(db, connects)
       IN /\ db' = handle
          /\ rq' = [rq EXCEPT ![p] =
                      IF handle = {}
                      THEN [rq[p] EXCEPT !.pc = "prepare", !.dbUser = {}, !.noDb = TRUE]
                      ELSE IF fails THEN catchBlock(rq[p], "read")
                      ELSE [rq[p] EXCEPT !.pc = "prepare",
                              !.dbUser = selectBySupabaseId(users, rq[p].supabaseUser.id)]]
  /\ UNCHANGED <<users, users_id_seq, supabaseEnabled, now>>
  /\ UNCHANGED <<chainVars, dirVars, libVars, appVars>>

\* db.upsertUser({..., lastSignedIn: new Date()}) is called: the argument is
\* built, upsertUser checks supabaseId and awaits getDb()
Prepare(p) ==
  /\ Quiet
  /\ rq[p].pc = "prepare"
  /\ \E connects \in BOOLEAN :
       LET r == rq[p]
           arg == IF r.dbUser = {} THEN firstTimeUser(r.supabaseUser, now)
                                   ELSE knownUser(r.supabaseUser, now)
           called == [r EXCEPT !.arg = arg, !.d = now,
                               !.path = IF r.dbUser = {} THEN "create" ELSE "refresh"]
           handle == getDb(db, connects)
       IN IF OrNull(arg.supabaseId) \in {Null, ""}
          THEN /\ rq' = [rq EXCEPT ![p] = catchBlock(called, "write")]
               /\ UNCHANGED db
          ELSE /\ db' = handle
               /\ rq' = [rq EXCEPT ![p] =
                           IF handle = {}
                           THEN afterUpsert([called EXCEPT !.noDb = TRUE])
                           ELSE [called EXCEPT !.pc = "write"]]
  /\ UNCHANGED <<users, users_id_seq, supabaseEnabled, now>>
  /\ UNCHANGED <<chainVars, dirVars, libVars, appVars>>

\* await db.insert(users).values(values).onConflictDoUpdate(...); a failure
\* is logged and rethrown by upsertUser
Write(p) ==
  /\ Quiet
  /\ rq[p].pc = "write"
  /\ \E fails \in BOOLEAN :
       LET r == rq[p]
       IN IF fails
          THEN /\ rq' = [rq EXCEPT ![p] = catchBlock(r, "write")]
               /\ UNCHANGED <<users, users_id_seq>>
          ELSE /\ users' = insertOnConflictDoUpdate(users, upsertValues(r.arg, r.d),
                              upsertUpdateSet(r.arg, r.d), users_id_seq, now)
               /\ users_id_seq' = nextId(users, r.arg, users_id_seq)
               /\ rq' = [rq EXCEPT ![p] =
                           afterUpsert([r EXCEPT !.wrote = TRUE,
                              !.inserted =
                                 (selectBySupabaseId(users, r.supabaseUser.id) = {})])]
  /\ UNCHANGED <<db, supabaseEnabled, now>>
  /\ UNCHANGED <<chainVars, dirVars, libVars, appVars>>

\* dbUser = await db.getUserBySupabaseId(supabaseUser.id); user = dbUser ?? null
Reread(p) ==
  /\ Quiet
  /\ rq[p].pc = "reread"
  /\ \E connects \in BOOLEAN, fails \in BOOLEAN :
       LET handle == getDb(db, connects)
           found == selectBySupabaseId(users, rq[p].supabaseUser.id)
       IN /\ db' = handle
          /\ rq' = [rq EXCEPT ![p] =
                      IF handle = {}
                      THEN returnContext([rq[p] EXCEPT !.dbUser = {}, !.user = {},
                                                       !.noDb = TRUE])
                      ELSE IF fails THEN catchBlock(rq[p], "read")
                      ELSE returnContext([rq[p] EXCEPT !.dbUser = found, !.user = found])]
  /\ UNCHANGED <<users, users_id_seq, supabaseEnabled, now>>
  /\ UNCHANGED <<chainVars, dirVars, libVars, appVars>>

\* the caller takes the returned context; the call's locals are gone
Respond(p) ==
  /\ rq[p].pc = "done"
  /\ rq' = [rq EXCEPT ![p] = IdleRequest]
  /\ UNCHANGED <<users, users_id_seq, db, supabaseEnabled, now>>
  /\ UNCHANGED <<chainVars, dirVars, libVars, appVars>>

\* upsertUser calls of other callers (role changes, profile edits)
Subjects == {"subA", "subB"}

OtherUpserts ==
  { [NoInsertUser EXCEPT !.supabaseId = {"subA"}, !.role = {"admin"},
                         !.name = {"Renamed"}, !.email = {Null}] }

\* upsertUser(user), called outside createContext
UpsertUser ==
  /\ Quiet
  /\ \E user \in OtherUpserts, connects \in BOOLEAN, fails \in BOOLEAN :
       LET handle == getDb(db, connects)
       IN IF OrNull(user.supabaseId) \in {Null, ""}
          THEN UNCHANGED <<users, users_id_seq, db>>
          ELSE /\ db' = handle
               /\ IF handle = {} \/ fails
                  THEN UNCHANGED <<users, users_id_seq>>
                  ELSE /\ users' = insertOnConflictDoUpdate(users,
                                      upsertValues(user, now),
                                      upsertUpdateSet(user, now), users_id_seq, now)
                       /\ users_id_seq' = nextId(users, user, users_id_seq)
  /\ UNCHANGED <<supabaseEnabled, now, rq>>
  /\ UNCHANGED <<chainVars, dirVars, libVars, appVars>>

(***************************************************************************)
(* server/db.ts called directly: one step per await                        *)
(***************************************************************************)
\* the largest distance of the counter from 0
MaxCounter == 1

\* const COUNTER_ID = 1
COUNTER_ID == 1

\* the slots of the callers that can be in flight at the same time
Callers == {1, 2}

UserOps == {"upsertUser", "getUserBySupabaseId"}
CounterOps == {"getCounter", "incrementCounter", "decrementCounter"}

\* The locals of one call.  ret says how the call ended, with user / value
\* what it returned and error what it threw; wrote, noDb and before record
\* what happened in it: a statement changed a table, getDb() gave no
\* handle, the rows the insert met under its supabaseId.  db is the
\* function's local const db = await getDb().
IdleCall ==
  [pc |-> "idle", op |-> "", db |-> {}, arg |-> NoInsertUser, id |-> "", d |-> 0,
   ret |-> "none", user |-> {}, value |-> 0, error |-> NoError,
   wrote |-> FALSE, noDb |-> FALSE, before |-> {}]

\* the call returns / throws to its caller
returns(r) == [r EXCEPT !.pc = "done", !.ret = "returned"]
throws(r, error) == [r EXCEPT !.pc = "done", !.ret = "thrown", !.error = error]

\* if (!db) { log.warn(...); throw } : the missing handle raised to the caller
noHandle_throws(r) ==
  throws([r EXCEPT !.noDb = TRUE], GenericError("database not available"))

\* if (!db) { log.warn(...); return / return undefined / return 0 }
noHandle(r) == returns([r EXCEPT !.noDb = TRUE, !.user = {}, !.value = 0])

\* throw new Error("User supabaseId is required for upsert")
supabaseIdRequired == GenericError("User supabaseId is required for upsert")

\* what a failed statement rejects with (the driver's error)
PostgresError == GenericError("PostgresError")

\* what an insert rejects with when its primary key is taken
UniqueViolation ==
  GenericError("duplicate key value violates unique constraint \"global_counter_pkey\"")

\* the arguments callers pass to upsertUser
UpsertInputs ==
  [supabaseId : {{"subA"}},
   name : {{}, {Null}, {"N"}},
   email : {{}, {"e@example.com"}},
   loginMethod : {{}, {Null}, {"email"}},
   lastSignedIn : {{}, {0}},
   role : {{}, {"admin"}}]
  \cup { [NoInsertUser EXCEPT !.supabaseId = i, !.name = n]
           : i \in {{}, {""}}, n \in {{}, {"N"}} }

\* no returned call is waiting for its caller
DirQuiet == \A c \in Callers : dq[c].pc # "done"

\* slot c is the lowest free one
FreeSlot(c) ==
  /\ dq[c].pc = "idle"
  /\ \A b \in Callers : b < c => dq[b].pc # "idle"

\* The users table and the counter table have nothing in common but the
\* handle: calls on the counter overlap one another, a call on the users
\* table runs with no other call of this section in flight (overlapping
\* writers of the users table are the requests of createContext).
MayStart(c, op) ==
  /\ DirQuiet
  /\ FreeSlot(c)
  /\ \A b \in Callers : dq[b].op \notin UserOps
  /\ op \in UserOps => \A b \in Callers : dq[b].pc = "idle"

\* upsertUser(user) up to its insert: the check of supabaseId, await
\* getDb(), values and updateSet built with new Date()
CallUpsertUser(c) ==
  /\ MayStart(c, "upsertUser")
  /\ \E user \in UpsertInputs, connects \in BOOLEAN :
       LET r == [IdleCall EXCEPT !.op = "upsertUser", !.arg = user]
           handle == getDb(db, connects)
       IN IF OrNull(user.supabaseId) \in {Null, ""}
          THEN /\ dq' = [dq EXCEPT ![c] = throws(r, supabaseIdRequired)]
               /\ UNCHANGED db
          ELSE /\ db' = handle
               /\ dq' = [dq EXCEPT ![c] =
                           IF handle = {} THEN noHandle(r)
                           ELSE [r EXCEPT !.pc = "insert", !.db = handle, !.d = now]]
  /\ UNCHANGED <<users, users_id_seq, supabaseEnabled, now, rq, global_counter>>
  /\ UNCHANGED <<chainVars, libVars, appVars>>

\* await db.insert(users).values(values).onConflictDoUpdate(...); a failure
\* is logged and rethrown
InsertUser(c) ==
  /\ DirQuiet
  /\ dq[c].pc = "insert"
  /\ \E fails \in BOOLEAN :
       LET r == dq[c]
       IN IF fails
          THEN /\ dq' = [dq EXCEPT ![c] = throws(r, PostgresError)]
               /\ UNCHANGED <<users, users_id_seq>>
          ELSE /\ users' = insertOnConflictDoUpdate(users, upsertValues(r.arg, r.d),
                              upsertUpdateSet(r.arg, r.d), users_id_seq, now)
               /\ users_id_seq' = nextId(users, r.arg, users_id_seq)
               /\ dq' = [dq EXCEPT ![c] =
                           returns([r EXCEPT !.wrote = TRUE,
                              !.before = {x \in users :
                                            x.supabaseId = TheOne(r.arg.supabaseId)}])]
  /\ UNCHANGED <<db, supabaseEnabled, now, rq, global_counter>>
  /\ UNCHANGED <<chainVars, libVars, appVars>>

\* getUserBySupabaseId(supabaseId) up to its select
CallGetUserBySupabaseId(c) ==
  /\ MayStart(c, "getUserBySupabaseId")
  /\ \E id \in Subjects, connects \in BOOLEAN :
       LET r == [IdleCall EXCEPT !.op = "getUserBySupabaseId", !.id = id]
           handle == getDb(db, connects)
       IN /\ db' = handle
          /\ dq' = [dq EXCEPT ![c] =
                      IF handle = {} THEN noHandle(r)
                      ELSE [r EXCEPT !.pc = "select", !.db = handle]]
  /\ UNCHANGED <<users, users_id_seq, supabaseEnabled, now, rq, global_counter>>
  /\ UNCHANGED <<chainVars, libVars, appVars>>

\* await db.select().from(users).where(...).limit(1); a failure rejects
SelectUser(c) ==
  /\ DirQuiet
  /\ dq[c].pc = "select"
  /\ \E fails \in BOOLEAN :
       dq' = [dq EXCEPT ![c] =
                IF fails THEN throws(dq[c], PostgresError)
                ELSE returns([dq[c] EXCEPT !.user = selectBySupabaseId(users, dq[c].id)])]
  /\ UNCHANGED <<users, users_id_seq, db, supabaseEnabled, now, rq, global_counter>>
  /\ UNCHANGED <<chainVars, libVars, appVars>>

\* the row of the counter, if it exists
counterRows(table) == {x \in table : x.id = COUNTER_ID}

\* the calls that are going to add delta to the counter
Pending(op) == {b \in Callers : dq[b].op = op /\ dq[b].pc \notin {"idle", "done"}}

\* the counter stays within MaxCounter of 0
RoomFor(op) ==
  LET v == IF counterRows(global_counter) = {} THEN 0
           ELSE TheOne(counterRows(global_counter)).value
  IN CASE op = "incrementCounter" -> v + Cardinality(Pending(op)) < MaxCounter
       [] op = "decrementCounter" -> v - Cardinality(Pending(op)) > 0 - MaxCounter
       [] OTHER -> TRUE

\* sql`${globalCounter.value} + 1` / sql`${globalCounter.value} - 1`
delta(op) == IF op = "incrementCounter" THEN 1 ELSE 0 - 1

\* the new value computed in the call from the value it holds and written
\* back: a read-modify-write
updatedValue_fromLocal(row, r) == r.value + delta(r.op)

\* .set({value: sql`${globalCounter.value} +- 1`}): the store computes the
\* new value from the row it updates
updatedValue(row, r) == row.value + delta(r.op)

\* getCounter has come to its return inside the call: getCounter() itself
\* returns the value; incrementCounter / decrementCounter go on to their
\* update, built with new Date()
counterEnsured(r, value) ==
  IF r.op = "getCounter" THEN returns([r EXCEPT !.value = value])
  ELSE [r EXCEPT !.pc = "update", !.d = now]

\* getCounter(), incrementCounter(), decrementCounter() up to the select of
\* getCounter: await getDb() (and, in the two mutations, the getDb() of the
\* getCounter() they await)
CallCounter(c) ==
  /\ \E op \in CounterOps, connects \in BOOLEAN :
       LET r == [IdleCall EXCEPT !.op = op]
           handle == getDb(db, connects)
       IN /\ MayStart(c, op)
          /\ RoomFor(op)
          /\ db' = handle
          /\ dq' = [dq EXCEPT ![c] =
                      IF handle = {} THEN noHandle(r)
                      ELSE [r EXCEPT !.pc = "ensure", !.db = handle]]
  /\ UNCHANGED <<users, users_id_seq, supabaseEnabled, now, rq, global_counter>>
  /\ UNCHANGED <<chainVars, libVars, appVars>>

\* getCounter: await db.select().from(globalCounter).where(id = COUNTER_ID)
SelectCounter(c) ==
  /\ DirQuiet
  /\ dq[c].pc = "ensure"
  /\ \E fails \in BOOLEAN :
       LET found == counterRows(global_counter)
       IN dq' = [dq EXCEPT ![c] =
                   IF fails THEN throws(dq[c], PostgresError)
                   ELSE IF found # {} THEN counterEnsured(dq[c], TheOne(found).value)
                   ELSE [dq[c] EXCEPT !.pc = "create"]]
  /\ UNCHANGED <<users, users_id_seq, db, supabaseEnabled, now, rq, global_counter>>
  /\ UNCHANGED <<chainVars, libVars, appVars>>

\* getCounter: await db.insert(globalCounter).values({id: COUNTER_ID, value: 0});
\* the statement fails when the primary key is taken
InsertCounter(c) ==
  /\ DirQuiet
  /\ dq[c].pc = "create"
  /\ \E fails \in BOOLEAN :
       IF fails \/ counterRows(global_counter) # {}
       THEN /\ dq' = [dq EXCEPT ![c] =
                       throws(dq[c], IF fails THEN PostgresError ELSE UniqueViolation)]
            /\ UNCHANGED global_counter
       ELSE /\ global_counter' = global_counter
                   \cup {[id |-> COUNTER_ID, value |-> 0, updatedAt |-> now]}
            /\ dq' = [dq EXCEPT ![c] = counterEnsured([dq[c] EXCEPT !.wrote = TRUE], 0)]
  /\ UNCHANGED <<users, users_id_seq, db, supabaseEnabled, now, rq>>
  /\ UNCHANGED <<chainVars, libVars, appVars>>

\* await db.update(globalCounter).set({value: value +- 1, updatedAt})
\*   .where(id = COUNTER_ID).returning({value}); return result[0]?.value ?? 0
UpdateCounter(c) ==
  /\ DirQuiet
  /\ dq[c].pc = "update"
  /\ \E fails \in BOOLEAN :
       LET r == dq[c]
           hit == counterRows(global_counter)
           returning == {[x EXCEPT !.value = updatedValue(x, r), !.updatedAt = r.d]
                           : x \in hit}
       IN IF fails
          THEN /\ dq' = [dq EXCEPT ![c] = throws(r, PostgresError)]
               /\ UNCHANGED global_counter
          ELSE /\ global_counter' = (global_counter \ hit) \cup returning
               /\ dq' = [dq EXCEPT ![c] =
                           returns([r EXCEPT !.wrote = (hit # {}),
                              !.value = IF returning = {} THEN 0
                                        ELSE TheOne(returning).value])]
  /\ UNCHANGED <<users, users_id_seq, db, supabaseEnabled, now, rq>>
  /\ UNCHANGED <<chainVars, libVars, appVars>>

\* the caller takes what the call returned or threw
Return(c) ==
  /\ dq[c].pc = "done"
  /\ dq' = [dq EXCEPT ![c] = IdleCall]
  /\ UNCHANGED <<users, users_id_seq, db, supabaseEnabled, now, rq, global_counter>>
  /\ UNCHANGED <<chainVars, libVars, appVars>>

(***************************************************************************)
(* shared/errors.ts used on its own: constructing, coercing, classifying   *)
(***************************************************************************)
\* RETRYABLE_CODES without DATABASE_ERROR
RETRYABLE_CODES_noDatabase == {"SERVICE_UNAVAILABLE", "TIMEOUT", "RATE_LIMITED"}

RETRYABLE_CODES ==
  {"SERVICE_UNAVAILABLE", "TIMEOUT", "RATE_LIMITED", "DATABASE_ERROR"}

\* isRetryableError(error)
isRetryableError(error) ==
  IF error.type = "AppError" THEN error.code \in RETRYABLE_CODES ELSE FALSE

\* the AppErrorOptions a caller can pass
NoOptions == [code |-> "", message |-> {}, cause |-> {}, details |-> {}, statusCode |-> {}]

AppErrorOptions ==
  { [code |-> c, message |-> m, cause |-> x.cause, details |-> x.details,
     statusCode |-> st]
      : c \in ErrorCode,
        m \in { {}, {"custom message"} },
        st \in { {}, {404}, {418} },
        x \in { [cause |-> {}, details |-> {}],
                [cause |-> {GenericError("boom")}, details |-> {[field |-> "email"]}] } }

\* values that are no application error: exceptions of other classes and
\* thrown values that are no Error, each with its String() form
OtherValues ==
  { GenericError("boom"), GenericError(""),
    TRPCError("NOT_FOUND", "from handler", {}),
    ThrownValue("42"), ThrownValue("null"), ThrownValue("undefined"),
    ThrownValue("[object Object]") }

NoErrCall ==
  [op |-> "none", options |-> NoOptions, arg |-> NoError, defaultCode |-> "",
   out |-> NoError, retryable |-> FALSE]

\* new AppError(options)
NewAppError ==
  /\ \E o \in AppErrorOptions :
       errCall' = [NoErrCall EXCEPT !.op = "new", !.options = o,
                     !.out = AppError(o.code, o.message, o.cause, o.details, o.statusCode)]
  /\ UNCHANGED <<chainVars, ctxVars, dirVars, appVars>>

\* AppError.from(error, defaultCode), on the error the last call returned or
\* on a value that is no application error
From ==
  /\ \E error \in OtherValues \cup {e \in {errCall.out} : e.type = "AppError"},
        defaultCode \in ErrorCode :
       /\ error.type = "AppError" => defaultCode \in {"INTERNAL_ERROR", "DATABASE_ERROR"}
       /\ errCall' = [NoErrCall EXCEPT !.op = "from", !.arg = error,
                        !.defaultCode = defaultCode,
                        !.out = AppErrorFrom(error, defaultCode)]
  /\ UNCHANGED <<chainVars, ctxVars, dirVars, appVars>>

\* isRetryableError(error), on the error the last call returned or on a
\* value that is no application error
IsRetryable ==
  /\ \E error \in OtherValues \cup {e \in {errCall.out} : e.type = "AppError"} :
       errCall' = [NoErrCall EXCEPT !.op = "isRetryable", !.arg = error,
                     !.retryable = isRetryableError(error)]
  /\ UNCHANGED <<chainVars, ctxVars, dirVars, appVars>>

(***************************************************************************)
(* client/src/lib/TrpcProvider.tsx: the retry policy of the query client   *)
(***************************************************************************)
\* What a query or mutation function rejects with: a TRPCClientError whose
\* data is the envelope's data (with a code, or without one), a
\* TRPCClientError without data (the request never got an answer), or an
\* error of another class.
ClientErrors ==
  { [isTRPCClientError |-> TRUE, data |-> {[code |-> {c}]}]
      : c \in ErrorCode \cup TRPCCode }
  \cup { [isTRPCClientError |-> TRUE, data |-> {[code |-> {}]}],
         [isTRPCClientError |-> TRUE, data |-> {}],
         [isTRPCClientError |-> FALSE, data |-> {}] }

\* extractErrorInfo(error).code: data?.code
extractErrorInfo(error) ==
  [code |-> IF error.data = {} THEN {} ELSE TheOne(error.data).code]

\* a policy that retries whatever the error is, up to 2 times
queriesRetry_anyError(failureCount, error) == failureCount < 2

\* defaultOptions.queries.retry
queriesRetry(failureCount, error) ==
  IF /\ error.isTRPCClientError
     /\ extractErrorInfo(error).code \in
          { {"AUTH_REQUIRED"}, {"AUTH_EXPIRED_TOKEN"}, {"FORBIDDEN"} }
  THEN FALSE
  ELSE failureCount < 2

\* defaultOptions.mutations.retry
mutationsRetry(failureCount, error) == FALSE

\* the retryer's decision after a failure: the retry option of the kind
shouldRetry(type, failureCount, error) ==
  IF type = "query" THEN queriesRetry(failureCount, error)
  ELSE mutationsRetry(failureCount, error)

\* The state of the one fetch followed: failureCount is the retryer's
\* counter, failures the errors of its attempts so far, attempts the number
\* of times the function was called.
NoQuery ==
  [type |-> "", status |-> "idle", failureCount |-> 0, failures |-> << >>,
   attempts |-> 0]

\* a query is fetched or a mutation is executed: the retryer runs the function
Fetch ==
  /\ qry.status = "idle"
  /\ \E type \in {"query", "mutation"} :
       qry' = [NoQuery EXCEPT !.type = type, !.status = "fetching", !.attempts = 1]
  /\ UNCHANGED exceptQuery

\* the function resolves
Succeed ==
  /\ qry.status = "fetching"
  /\ qry' = [qry EXCEPT !.status = "success"]
  /\ UNCHANGED exceptQuery

\* the function rejects: the retryer asks the retry option; it either counts
\* the failure and waits for the retry delay, or rejects and the query or
\* mutation goes to the error state
Fail ==
  /\ qry.status = "fetching"
  /\ \E error \in ClientErrors :
       qry' = IF shouldRetry(qry.type, qry.failureCount, error)
              THEN [qry EXCEPT !.status = "retrying",
                               !.failureCount = @ + 1,
                               !.failures = Append(@, error)]
              ELSE [qry EXCEPT !.status = "error",
                               !.failures = Append(@, error)]
  /\ UNCHANGED exceptQuery

\* the retry delay is over: the retryer runs the function again
Retry ==
  /\ qry.status = "retrying"
  /\ qry' = [qry EXCEPT !.status = "fetching", !.attempts = @ + 1]
  /\ UNCHANGED exceptQuery

\* the settled query or mutation is dropped; another can be followed
Settle ==
  /\ qry.status \in {"success", "error"}
  /\ qry' = NoQuery
  /\ UNCHANGED exceptQuery

(***************************************************************************)
(* server/socket.ts and the useSocket hook: the realtime channel           *)
(***************************************************************************)
\* the number of counter events the clients emit in all
MaxEvents == 2

\* the number of messages that can be on their way to one client
MaxInbox == 2

\* the browsers that run useSocket
Clients == {1, 2}

\* ServerToClientEvents
stateInit(counter, count) ==
  [type |-> "state:init", counter |-> {counter}, users |-> {count}]
counterUpdate(value) == [type |-> "counter:update", counter |-> {value}, users |-> {}]
usersCount(count) == [type |-> "users:count", counter |-> {}, users |-> {count}]

\* ClientToServerEvents
ClientEvents == {"counter:increment", "counter:decrement"}

\* One client.  connected: the server holds its socket; inbox: the messages
\* sent to it and not yet received, oldest first; up: the events it emitted
\* that the server has not yet handled; counter, users: the hook's state;
\* initialised: it has received state:init on its present connection.
NoSocket ==
  [connected |-> FALSE, inbox |-> << >>, up |-> << >>, counter |-> 0, users |-> 0,
   initialised |-> FALSE]

\* nothing handled, nothing broadcast
NothingSent == [increments |-> 0, decrements |-> 0, usersCount |-> {}]

\* socket.broadcast.emit(msg): to every connected socket but the handler's own
ioEmit_toOthers(socks, from, msg) ==
  [c \in Clients |->
     IF socks[c].connected /\ c # from
     THEN [socks[c] EXCEPT !.inbox = Append(@, msg)] ELSE socks[c]]

\* io.emit(msg) in a handler of socket from: to every connected socket
ioEmit(socks, from, msg) ==
  [c \in Clients |->
     IF socks[c].connected THEN [socks[c] EXCEPT !.inbox = Append(@, msg)]
     ELSE socks[c]]

\* socket.emit(msg): to the one socket
socketEmit(socks, to, msg) ==
  [socks EXCEPT ![to].inbox = Append(@, msg)]

\* every connected client but c can take one more message, c can take n
RoomInInboxes(c, n) ==
  \A b \in Clients :
    sockets[b].connected \/ b = c =>
      Len(sockets[b].inbox) + (IF b = c THEN n ELSE 1) <= MaxInbox

\* the events emitted so far: handled or on their way
Emitted ==
  LET RECURSIVE InFlight(_)
      InFlight(S) == IF S = {} THEN 0
                     ELSE LET c == CHOOSE x \in S : TRUE
                          IN Len(sockets[c].up) + InFlight(S \ {c})
  IN io.increments + io.decrements + InFlight(Clients)

\* io.on("connection"): a client connects on a new transport (what was on
\* its way on an earlier one is gone); the count goes up, the socket gets
\* state:init, everyone gets users:count
Connection(c) ==
  /\ ~sockets[c].connected
  /\ LET fresh == [sockets EXCEPT ![c] =
                     [@ EXCEPT !.connected = TRUE, !.inbox = << >>, !.up = << >>,
                               !.initialised = FALSE]]
     IN /\ \A b \in Clients :
             fresh[b].connected =>
               Len(fresh[b].inbox) + (IF b = c THEN 2 ELSE 1) <= MaxInbox
        /\ connectedUsers' = connectedUsers + 1
        /\ sockets' = ioEmit(socketEmit(fresh, c,
                                stateInit(realtimeCounter, connectedUsers + 1)),
                             c, usersCount(connectedUsers + 1))
        /\ io' = [io EXCEPT !.usersCount = {connectedUsers + 1}]
  /\ UNCHANGED realtimeCounter
  /\ UNCHANGED exceptSocket

\* the disconnect handler that leaves the count as it is
Disconnect_keepsCount(c) ==
  /\ sockets[c].connected
  /\ RoomInInboxes(c, 0)
  /\ connectedUsers' = connectedUsers
  /\ sockets' = ioEmit([sockets EXCEPT ![c] = [@ EXCEPT !.connected = FALSE,
                                                        !.up = << >>]],
                       c, usersCount(connectedUsers))
  /\ io' = [io EXCEPT !.usersCount = {connectedUsers}]
  /\ UNCHANGED realtimeCounter
  /\ UNCHANGED exceptSocket

\* socket.on("disconnect"): the socket is gone (with what it had sent and
\* the server had not handled); the count goes down, the others get
\* users:count
Disconnect(c) ==
  /\ sockets[c].connected
  /\ RoomInInboxes(c, 0)
  /\ connectedUsers' = connectedUsers - 1
  /\ sockets' = ioEmit([sockets EXCEPT ![c] = [@ EXCEPT !.connected = FALSE,
                                                        !.up = << >>]],
                       c, usersCount(connectedUsers - 1))
  /\ io' = [io EXCEPT !.usersCount = {connectedUsers - 1}]
  /\ UNCHANGED realtimeCounter
  /\ UNCHANGED exceptSocket

\* increment() / decrement() of the hook: socketRef.current?.emit(event)
Emit(c) ==
  /\ sockets[c].connected
  /\ Emitted < MaxEvents
  /\ \E event \in ClientEvents :
       sockets' = [sockets EXCEPT ![c].up = Append(@, event)]
  /\ UNCHANGED <<realtimeCounter, connectedUsers, io>>
  /\ UNCHANGED exceptSocket

\* socket.on("counter:increment") / socket.on("counter:decrement"): the
\* server handles the oldest event of the socket
HandleEvent(c) ==
  /\ sockets[c].connected
  /\ sockets[c].up # << >>
  /\ RoomInInboxes(c, 1)
  /\ LET event == Head(sockets[c].up)
         value == IF event = "counter:increment" THEN realtimeCounter + 1
                  ELSE realtimeCounter - 1
     IN /\ realtimeCounter' = value
        /\ sockets' = ioEmit([sockets EXCEPT ![c].up = Tail(@)], c, counterUpdate(value))
        /\ io' = IF event = "counter:increment"
                 THEN [io EXCEPT !.increments = @ + 1]
                 ELSE [io EXCEPT !.decrements = @ + 1]
  /\ UNCHANGED connectedUsers
  /\ UNCHANGED exceptSocket

\* the hook's handlers of state:init, counter:update and users:count
receive(sock, msg) ==
  CASE msg.type = "state:init" ->
         [sock EXCEPT !.counter = TheOne(msg.counter), !.users = TheOne(msg.users),
                      !.initialised = TRUE]
    [] msg.type = "counter:update" -> [sock EXCEPT !.counter = TheOne(msg.counter)]
    [] OTHER -> [sock EXCEPT !.users = TheOne(msg.users)]

\* the client receives the oldest message on its way
Deliver(c) ==
  /\ sockets[c].inbox # << >>
  /\ sockets' = [sockets EXCEPT ![c] =
                   receive([@ EXCEPT !.inbox = Tail(@)], Head(sockets[c].inbox))]
  /\ UNCHANGED <<realtimeCounter, connectedUsers, io>>
  /\ UNCHANGED exceptSocket

(***************************************************************************)
(* client/src/hooks: useComposition                                        *)
(***************************************************************************)
\* the number of compositionEnd events followed
MaxEnds == 3

\* the keys pressed: key and shiftKey
Keys ==
  { [key |-> k, shiftKey |-> sh] : k \in {"Escape", "Enter", "a"}, sh \in BOOLEAN }

NoKey == [key |-> "", shiftKey |-> FALSE, stopped |-> FALSE, forwarded |-> FALSE,
          composing |-> FALSE]

\* The hook after its first render.  c, timer, timer2: the three refs;
\* queue: the timeouts set and neither run nor cleared, in the order they
\* will run, each with its id and what it runs (1: the outer callback, 2:
\* the inner one); timeouts: how many were set; ends: how many
\* compositionEnd events there were; composing: the last composition event
\* was a compositionStart; key: the last keydown and what became of it.
NoComposition ==
  [c |-> FALSE, timer |-> {}, timer2 |-> {}, queue |-> << >>, timeouts |-> 0,
   ends |-> 0, composing |-> FALSE, key |-> NoKey]

\* setTimeout(callback): the queue with the new timeout at its end
setTimeout(queue, id, callback) == Append(queue, [id |-> id, callback |-> callback])

\* clearTimeout(ref.current) when the ref holds an id: the timeout, if it is
\* still pending, is taken from the queue
clearTimeout(queue, ref) ==
  SelectSeq(queue, LAMBDA t : t.id \notin ref)

\* onCompositionStart
CompositionStart ==
  /\ comp' = [comp EXCEPT
                !.queue = clearTimeout(clearTimeout(comp.queue, comp.timer), comp.timer2),
                !.timer = {}, !.timer2 = {}, !.c = TRUE, !.composing = TRUE]
  /\ UNCHANGED exceptComposition

\* onCompositionEnd
CompositionEnd ==
  /\ comp.ends < MaxEnds
  /\ comp' = [comp EXCEPT
                !.timer = {comp.timeouts + 1},
                !.queue = setTimeout(comp.queue, comp.timeouts + 1, 1),
                !.timeouts = @ + 1, !.ends = @ + 1, !.composing = FALSE]
  /\ UNCHANGED exceptComposition

\* the oldest pending timeout runs: the outer callback sets the inner
\* timeout, the inner callback clears the flag
Timeout ==
  /\ comp.queue # << >>
  /\ comp' = IF Head(comp.queue).callback = 1
             THEN [comp EXCEPT
                     !.timer2 = {comp.timeouts + 1},
                     !.queue = setTimeout(Tail(comp.queue), comp.timeouts + 1, 2),
                     !.timeouts = @ + 1]
             ELSE [comp EXCEPT !.queue = Tail(comp.queue), !.c = FALSE]
  /\ UNCHANGED exceptComposition

\* onKeyDown
KeyDown ==
  /\ \E e \in Keys :
       LET stop == comp.c /\ (e.key = "Escape" \/ (e.key = "Enter" /\ ~e.shiftKey))
       IN comp' = [comp EXCEPT !.key =
                     [key |-> e.key, shiftKey |-> e.shiftKey, stopped |-> stop,
                      forwarded |-> ~stop, composing |-> comp.composing]]
  /\ UNCHANGED exceptComposition

\* isComposing()
isComposing == comp.c

(***************************************************************************)
(* client/src/store/index.ts: useAuthStore                                 *)
(***************************************************************************)
\* the number of auth events that can wait to be handed to the store
MaxQueued == 2

\* the sessions the Supabase client can hold, and the user of a session
Sessions == {"session1", "session2"}
sessionUser(session) == IF session = {} THEN {} ELSE {"subA"}

\* the users setUser is called with (auth.me's answer, or the persisted one)
AppUsers == {"userA"}

\* create(): the state before anything has happened
InitialAuthState ==
  [session |-> {}, supabaseUser |-> {}, user |-> {}, isAuthenticated |-> FALSE,
   loading |-> TRUE, error |-> {}]

\* The Supabase auth client before the app is mounted.  session: the
\* session it holds; getSession: the result of the getSession() call of
\* _init that the store has not been given yet; events: the calls of the
\* onAuthStateChange listener still to be made, oldest first (each with the
\* session it reports); signOut: the store's signOut is awaiting the
\* client's.
NoAuthClient ==
  [phase |-> "created", isSupabaseConfigured |-> FALSE, session |-> {},
   subscribed |-> FALSE, getSession |-> {}, events |-> << >>, signOut |-> "none"]

\* _notifyAllSubscribers(event, session)
notify(client, session) ==
  IF client.subscribed THEN [client EXCEPT !.events = Append(@, session)]
  ELSE client

\* the callback of supabase.auth.getSession().then
onGetSession(state, session) ==
  [state EXCEPT !.session = session, !.supabaseUser = sessionUser(session),
                !.loading = (session = {}),
                !.isAuthenticated = (session # {} /\ state.user # {})]

\* the onAuthStateChange listener
onAuthStateChange(state, session) ==
  LET hadSession == state.session # {}
      hasSession == session # {}
      next == [state EXCEPT !.session = session, !.supabaseUser = sessionUser(session)]
  IN IF hadSession /\ ~hasSession
     THEN [next EXCEPT !.user = {}, !.isAuthenticated = FALSE]
     ELSE next

\* setUser(user)
setUser(state, user) ==
  [state EXCEPT !.user = user, !.isAuthenticated = (state.session # {} /\ user # {})]

\* the app is mounted: persist has put the stored user back, and _init()
\* runs: without Supabase it ends the loading; with it, it calls
\* getSession() and subscribes (the client then reports its initial session)
Mount ==
  /\ supa.phase = "created"
  /\ \E configured \in BOOLEAN, persisted \in {{}} \cup {{u} : u \in AppUsers},
        held \in {{}, {"session1"}} :
       LET rehydrated == [store EXCEPT !.user = persisted]
       IN IF ~configured
          THEN /\ store' = [rehydrated EXCEPT !.loading = FALSE]
               /\ supa' = [supa EXCEPT !.phase = "running"]
          ELSE /\ store' = rehydrated
               /\ supa' = [supa EXCEPT !.phase = "running",
                              !.isSupabaseConfigured = TRUE,
                              !.session = held, !.subscribed = TRUE,
                              !.getSession = {[session |-> held]},
                              !.events = <<held>>]
  /\ UNCHANGED exceptStore

\* the promise of getSession() resolves: its .then callback is run
GetSessionResolves ==
  /\ supa.getSession # {}
  /\ store' = onGetSession(store, TheOne(supa.getSession).session)
  /\ supa' = [supa EXCEPT !.getSession = {}]
  /\ UNCHANGED exceptStore

\* the client's session changes (sign-in, token refresh, sign-out in another
\* tab, expiry): the subscribers are told
SessionChanges ==
  /\ supa.phase = "running" /\ supa.isSupabaseConfigured
  /\ Len(supa.events) < MaxQueued
  /\ \E session \in {{}} \cup {{x} : x \in Sessions} :
       /\ session # supa.session
       /\ supa' = notify([supa EXCEPT !.session = session], session)
  /\ UNCHANGED store
  /\ UNCHANGED exceptStore

\* the listener is called with the oldest event
AuthStateChange ==
  /\ supa.events # << >>
  /\ store' = onAuthStateChange(store, Head(supa.events))
  /\ supa' = [supa EXCEPT !.events = Tail(@)]
  /\ UNCHANGED exceptStore

\* setUser(user), called by useAuth with what auth.me answered
SetUser ==
  /\ supa.phase = "running"
  /\ \E user \in {{}} \cup {{u} : u \in AppUsers} : store' = setUser(store, user)
  /\ UNCHANGED supa
  /\ UNCHANGED exceptStore

\* setError(error) and setLoading(loading)
SetErrorOrLoading ==
  /\ supa.phase = "running"
  /\ \/ \E error \in {{}, {"error"}} : store' = [store EXCEPT !.error = error]
     \/ \E loading \in BOOLEAN : store' = [store EXCEPT !.loading = loading]
  /\ UNCHANGED supa
  /\ UNCHANGED exceptStore

\* signOut() up to its await: supabase.auth.signOut() is called; it ends
\* the client's session and tells the subscribers, or fails and changes
\* nothing
SignOut ==
  /\ supa.phase = "running"
  /\ supa.signOut = "none"
  /\ Len(supa.events) < MaxQueued
  /\ \E fails \in BOOLEAN :
       supa' = IF fails \/ ~supa.isSupabaseConfigured
               THEN [supa EXCEPT !.signOut = "pending"]
               ELSE notify([supa EXCEPT !.signOut = "pending", !.session = {}], {})
  /\ UNCHANGED store
  /\ UNCHANGED exceptStore

\* signOut() after its await: set({user: null, isAuthenticated: false, error: null})
SignOutCompletes ==
  /\ supa.signOut = "pending"
  /\ store' = [store EXCEPT !.user = {}, !.isAuthenticated = FALSE, !.error = {}]
  /\ supa' = [supa EXCEPT !.signOut = "none"]
  /\ UNCHANGED exceptStore

\* time passes
Tick ==
  /\ Quiet
  /\ DirQuiet
  /\ now < MaxTime
  /\ now' = now + 1
  /\ UNCHANGED <<users, users_id_seq, db, supabaseEnabled, rq>>
  /\ UNCHANGED <<chainVars, dirVars, libVars, appVars>>

NextChain ==
  \/ Call
  \/ EnterErrorHandler
  \/ EnterGuard
  \/ EnterInput
  \/ RunHandler
  \/ Unwind
  \/ Finish
  \/ Reset
  \/ Tick

NextErr ==
  \/ NewAppError
  \/ From
  \/ IsRetryable
  \/ Tick

NextQuery ==
  \/ Fetch
  \/ Succeed
  \/ Fail
  \/ Retry
  \/ Settle

NextSocket ==
  \/ \E c \in Clients : Connection(c)
  \/ \E c \in Clients : Disconnect(c)
  \/ \E c \in Clients : Emit(c)
  \/ \E c \in Clients : HandleEvent(c)
  \/ \E c \in Clients : Deliver(c)

NextComposition ==
  \/ CompositionStart
  \/ CompositionEnd
  \/ Timeout
  \/ KeyDown

NextStore ==
  \/ Mount
  \/ GetSessionResolves
  \/ SessionChanges
  \/ AuthStateChange
  \/ SetUser
  \/ SetErrorOrLoading
  \/ SignOut
  \/ SignOutCompletes

NextDir ==
  \/ \E c \in Callers : CallUpsertUser(c)
  \/ \E c \in Callers : InsertUser(c)
  \/ \E c \in Callers : CallGetUserBySupabaseId(c)
  \/ \E c \in Callers : SelectUser(c)
  \/ \E c \in Callers : CallCounter(c)
  \/ \E c \in Callers : SelectCounter(c)
  \/ \E c \in Callers : InsertCounter(c)
  \/ \E c \in Callers : UpdateCounter(c)
  \/ \E c \in Callers : Return(c)
  \/ Tick

NextCtx ==
  \/ \E p \in Requests : StartContext(p)
  \/ \E p \in Requests : Verify(p)
  \/ \E p \in Requests : Lookup(p)
  \/ \E p \in Requests : Prepare(p)
  \/ \E p \in Requests : Write(p)
  \/ \E p \in Requests : Reread(p)
  \/ \E p \in Requests : Respond(p)
  \/ UpsertUser
  \/ Tick

\* The server starts: no call in progress, no database handle, an empty
\* users table (drizzle/0000_pretty_pestilence.sql), Supabase configured or not.
Init ==
  /\ call = NoCall
  /\ cpc = "idle"
  /\ depth = 0
  /\ trace = << >>
  /\ result = NoResult
  /\ response = NoResponse
  /\ users = {}
  /\ users_id_seq = 1
  /\ db = {}
  /\ supabaseEnabled \in BOOLEAN
  /\ now = 0
  /\ rq = [p \in Requests |-> IdleRequest]
  /\ global_counter = {}
  /\ dq = [c \in Callers |-> IdleCall]
  /\ errCall = NoErrCall
  /\ qry = NoQuery
  /\ realtimeCounter = 0
  /\ connectedUsers = 0
  /\ sockets = [c \in Clients |-> NoSocket]
  /\ io = NothingSent
  /\ comp = NoComposition
  /\ store = InitialAuthState
  /\ supa = NoAuthClient

SpecChain == Init /\ [][NextChain]_vars

SpecCtx == Init /\ [][NextCtx]_vars

SpecErr == Init /\ [][NextErr]_vars

SpecDir == Init /\ [][NextDir]_vars

SpecQuery == Init /\ [][NextQuery]_vars

SpecSocket == Init /\ [][NextSocket]_vars

SpecComposition == Init /\ [][NextComposition]_vars

SpecStore == Init /\ [][NextStore]_vars

(***************************************************************************)
(* Claims about createContext and the user directory (checked under        *)
(* SpecCtx)                                                                *)
(***************************************************************************)
RowsOf(table, id) == {r \in table : r.supabaseId = id}

\* the request carries no bearer credential
NoBearer(r) == r.authHeader = {} \/ TheOne(r.authHeader).scheme # "Bearer"

\* the request carries a bearer credential that the provider does not accept
RejectedBearer(r) ==
  ~NoBearer(r) /\ SupabaseUser(TheOne(r.authHeader).credentials) = {}

\* C3: a request with no bearer credential, or with one the identity
\* provider rejects, or one that arrives while there is no provider client,
\* gets a context whose user is absent, and createContext does not throw.
C3_AnonymousContext ==
  \A p \in Requests :
    (rq[p].pc = "done"
     /\ (NoBearer(rq[p]) \/ RejectedBearer(rq[p]) \/ ~supabaseEnabled))
      => (rq[p].user = {} /\ ~rq[p].raised)

C3_Witness ==
  \E p \in Requests :
    /\ rq[p].pc = "done" /\ supabaseEnabled
    /\ RejectedBearer(rq[p]) /\ rq[p].caught = ""
    /\ rq[p].user = {}

\* a step of request p that is not the arrival or the hand-over
Continue(p) == Verify(p) \/ Lookup(p) \/ Prepare(p) \/ Write(p) \/ Reread(p)

\* C4: createContext never throws to its caller, it can always go on to its
\* return, and when the provider call or a directory read or write threw,
\* the returned context's user is absent.
C4_NeverRaises ==
  \A p \in Requests :
    /\ ~rq[p].raised
    /\ (rq[p].pc = "done" /\ rq[p].caught # "") => rq[p].user = {}
    /\ (Quiet /\ rq[p].pc \notin {"idle", "done"}) => ENABLED Continue(p)

C4_Witness ==
  \E p \in Requests :
    /\ rq[p].pc = "done" /\ rq[p].caught = "write" /\ rq[p].path = "refresh"
    /\ rq[p].dbUser # {} /\ rq[p].user = {}

\* C5: in every reachable state the table holds at most one row per
\* supabaseId, and in every step each stored row keeps its id under its
\* supabaseId (an upsert of a known identifier updates the row in place).
C5_OneUserPerExternalId ==
  /\ [](\A r1 \in users, r2 \in users : r1.supabaseId = r2.supabaseId => r1 = r2)
  /\ [][\A r \in users :
          \E q \in users' : q.supabaseId = r.supabaseId /\ q.id = r.id]_vars

\* two first-time resolutions of one subject raced: the insert of the one
\* that is returning met the row the other had just created
C5_Witness ==
  \E p \in Requests, q \in Requests :
    /\ rq[p].pc = "done" /\ rq[p].path = "create"
    /\ rq[p].wrote /\ ~rq[p].inserted
    /\ rq[q].pc = "reread" /\ rq[q].path = "create" /\ rq[q].inserted
    /\ rq[q].supabaseUser.id = rq[p].supabaseUser.id
    /\ Cardinality(RowsOf(users, rq[p].supabaseUser.id)) = 1

\* the display name the provider supplies
ProviderName(su) ==
  IF su.full_name # {} THEN TheOne(su.full_name)
  ELSE IF su.name # {} THEN TheOne(su.name) ELSE Null

\* auth.me called with the context createContext returned
AuthMe(user) ==
  resolve(handler([proc |-> "public", user |-> user, nextRejects |-> FALSE,
                   outcome |-> [throws |-> FALSE, error |-> NoError]])).data

\* C6: when the write of a first-time resolution finds no row for the
\* subject it adds exactly one row, with the provider's email, display name
\* and login method, role "user" and the request's timestamp as
\* lastSignedIn; a first-time write never leaves more than one row for the
\* subject; and the re-read hands back the stored row, which auth.me returns.
C6_FirstTimeCreates ==
  [][\A p \in Requests :
       LET su == rq[p].supabaseUser
       IN /\ (rq[p].pc = "write" /\ rq[p].path = "create" /\ rq'[p].wrote)
               => /\ Cardinality(RowsOf(users', su.id)) = 1
                  /\ rq'[p].inserted = (RowsOf(users, su.id) = {})
                  /\ rq'[p].inserted =>
                       \E r \in users' :
                         /\ r \notin users
                         /\ users' = users \cup {r}
                         /\ r.supabaseId = su.id
                         /\ r.email = OrNull(su.email)
                         /\ r.name = ProviderName(su)
                         /\ r.loginMethod = OrNull(su.provider)
                         /\ r.role = "user"
                         /\ r.lastSignedIn = rq[p].d
                         /\ \A o \in users : o.id # r.id
          /\ (rq[p].pc = "reread" /\ rq'[p].pc = "done" /\ rq[p].wrote
              /\ rq'[p].caught = "" /\ ~rq'[p].noDb)
               => /\ rq'[p].user = RowsOf(users', su.id)
                  /\ Cardinality(rq'[p].user) = 1
                  /\ AuthMe(rq'[p].user) = RowsOf(users', su.id)
    ]_vars

C6_Witness ==
  \E p \in Requests :
    /\ rq[p].pc = "done" /\ rq[p].path = "create"
    /\ rq[p].wrote /\ rq[p].inserted /\ rq[p].caught = ""
    /\ rq[p].user # {}
    /\ rq[p].user = RowsOf(users, "subA")
    /\ TheOne(rq[p].user).name = "Ann Full"
    /\ TheOne(rq[p].user).role = "user"

TaxonomyStatus(kind) ==
  CASE kind = "AUTH_REQUIRED" -> 401
    [] kind = "AUTH_INVALID_TOKEN" -> 401
    [] kind = "AUTH_EXPIRED_TOKEN" -> 401
    [] kind = "AUTH_INVALID_CREDENTIALS" -> 401
    [] kind = "FORBIDDEN" -> 403
    [] kind = "ADMIN_REQUIRED" -> 403
    [] kind = "INSUFFICIENT_PERMISSIONS" -> 403
    [] kind = "VALIDATION_ERROR" -> 400
    [] kind = "INVALID_INPUT" -> 400
    [] kind = "MISSING_REQUIRED_FIELD" -> 400
    [] kind = "NOT_FOUND" -> 404
    [] kind = "ALREADY_EXISTS" -> 409
    [] kind = "CONFLICT" -> 409
    [] kind = "INTERNAL_ERROR" -> 500
    [] kind = "DATABASE_ERROR" -> 500
    [] kind = "SERVICE_UNAVAILABLE" -> 503
    [] kind = "EXTERNAL_SERVICE_ERROR" -> 502
    [] kind = "RATE_LIMITED" -> 429
    [] kind = "TIMEOUT" -> 504

\* C14: an AppError has the kind it was built with; built without a status
\* code it has the status the taxonomy lists for its kind, built with one it
\* has that one; built without a message it has its kind's default message
\* (for AUTH_REQUIRED "Please log in to continue"), built with one it has
\* that one.
C14_Taxonomy ==
  errCall.op = "new" =>
    LET o == errCall.options
        e == errCall.out
    IN /\ e.type = "AppError"
       /\ e.code = o.code
       /\ e.code \in ErrorCode
       /\ e.statusCode = IF o.statusCode = {} THEN TaxonomyStatus(o.code)
                                                ELSE TheOne(o.statusCode)
       /\ e.message = IF o.message = {} THEN ErrorMessages(o.code)
                                          ELSE TheOne(o.message)
       /\ (o.code = "AUTH_REQUIRED" /\ o.message = {})
            => e.message = "Please log in to continue"

C14_Witness ==
  /\ errCall.op = "new"
  /\ errCall.options.code = "SERVICE_UNAVAILABLE"
  /\ errCall.options.statusCode = {} /\ errCall.options.message = {}
  /\ errCall.out.statusCode = 503
  /\ errCall.out.message = "Service is temporarily unavailable"

C16_Retryable ==
  errCall.op = "isRetryable" =>
    errCall.retryable =
      (/\ errCall.arg.type = "AppError"
       /\ errCall.arg.code \in {"SERVICE_UNAVAILABLE", "TIMEOUT", "RATE_LIMITED",
                                "DATABASE_ERROR"})

C16_Witness ==
  /\ errCall.op = "isRetryable"
  /\ errCall.arg.type = "AppError" /\ errCall.arg.code = "DATABASE_ERROR"
  /\ errCall.retryable

(***************************************************************************)
(* Claims about the directory called directly (checked under SpecDir)      *)
(***************************************************************************)
UpdatableFields == {"name", "email", "loginMethod", "role", "lastSignedIn"}

\* an upsertUser call whose statement has run, and has just returned
Upserted(c) ==
  dq[c].pc = "done" /\ dq[c].op = "upsertUser" /\ dq[c].wrote

\* the stored row of the call's identifier
StoredRow(c) == TheOne(RowsOf(users, TheOne(dq[c].arg.supabaseId)))

\* the call supplies none of the updatable fields
SuppliesNothing(user) == \A f \in UpdatableFields : user[f] = {}

\* C17, as claimed: upsertUser called with an empty or missing supabaseId
\* fails with an application error of kind VALIDATION_ERROR, with or
\* without a database handle, and writes nothing.
C17_EmptyIdValidation ==
  \A c \in Callers :
    (dq[c].pc = "done" /\ dq[c].op = "upsertUser"
     /\ OrNull(dq[c].arg.supabaseId) \in {Null, ""})
      => /\ dq[c].ret = "thrown"
         /\ ~dq[c].wrote
         /\ dq[c].error.type = "AppError"
         /\ dq[c].error.code = "VALIDATION_ERROR"

\* C18, as claimed: an upsertUser that meets a row of its supabaseId leaves
\* every one of name, email, loginMethod, role and lastSignedIn that the
\* call does not supply as it was stored, and stores every supplied one as
\* supplied (null as null).
C18_OnlySuppliedFields ==
  \A c \in Callers :
    (Upserted(c) /\ dq[c].before # {}) =>
      \A f \in UpdatableFields :
        StoredRow(c)[f] = IF dq[c].arg[f] = {} THEN TheOne(dq[c].before)[f]
                                               ELSE TheOne(dq[c].arg[f])

\* C18, amended: as claimed, except that a call which supplies none of the
\* five fields sets lastSignedIn to the call's current time; id,
\* supabaseId and createdAt stay as stored and no row is added.
C18_OnlySuppliedFieldsOrStamp ==
  \A c \in Callers :
    (Upserted(c) /\ dq[c].before # {}) =>
      LET old == TheOne(dq[c].before)
          new == StoredRow(c)
          user == dq[c].arg
      IN /\ \A f \in UpdatableFields \ {"lastSignedIn"} :
              new[f] = IF user[f] = {} THEN old[f] ELSE TheOne(user[f])
         /\ new.lastSignedIn =
              IF user.lastSignedIn # {} THEN TheOne(user.lastSignedIn)
              ELSE IF SuppliesNothing(user) THEN dq[c].d
              ELSE old.lastSignedIn
         /\ new.id = old.id /\ new.supabaseId = old.supabaseId
         /\ new.createdAt = old.createdAt
         /\ Cardinality(RowsOf(users, old.supabaseId)) = 1

\* a name cleared by an explicit null, a role set, an email left alone
C18_Witness ==
  \E c \in Callers :
    /\ Upserted(c) /\ dq[c].before # {}
    /\ dq[c].arg.name = {Null} /\ dq[c].arg.email = {}
    /\ dq[c].arg.role = {"admin"} /\ dq[c].arg.lastSignedIn = {}
    /\ TheOne(dq[c].before).name = "N"
    /\ TheOne(dq[c].before).email = "e@example.com"
    /\ TheOne(dq[c].before).role = "user"
    /\ TheOne(dq[c].before).lastSignedIn = 0
    /\ StoredRow(c).name = Null
    /\ StoredRow(c).email = "e@example.com"
    /\ StoredRow(c).role = "admin"
    /\ StoredRow(c).lastSignedIn = 0
    /\ dq[c].d = 1

\* C19, as claimed: after an upsertUser that reached the store without a
\* lastSignedIn in the call, the stored lastSignedIn is the call's current
\* time, whether the row was created or updated and whatever else the call
\* supplies.
C19_AlwaysFresh ==
  \A c \in Callers :
    (Upserted(c) /\ dq[c].arg.lastSignedIn = {})
      => StoredRow(c).lastSignedIn = dq[c].d

\* C19, amended: after an upsertUser that reached the store without a
\* lastSignedIn in the call, the stored lastSignedIn is the call's current
\* time when the row was created, and when a row was updated by a call that
\* supplies no other field; when a row was updated by a call that supplies
\* another field, the stored lastSignedIn is the one the row had.
C19_FreshUnlessOtherFields ==
  \A c \in Callers :
    (Upserted(c) /\ dq[c].arg.lastSignedIn = {})
      => StoredRow(c).lastSignedIn =
           IF dq[c].before = {} \/ SuppliesNothing(dq[c].arg)
           THEN dq[c].d
           ELSE TheOne(dq[c].before).lastSignedIn

\* a call with nothing but the identifier refreshed an older row
C19_Witness ==
  \E c \in Callers :
    /\ Upserted(c) /\ dq[c].before # {}
    /\ SuppliesNothing(dq[c].arg)
    /\ TheOne(dq[c].before).lastSignedIn = 0
    /\ dq[c].d = 1
    /\ StoredRow(c).lastSignedIn = 1

\* C20: a call that gets no handle from getDb() (and, for upsertUser, has a
\* non-empty supabaseId) ends in that step by returning, not throwing:
\* nothing for getUserBySupabaseId and upsertUser, 0 for the three counter
\* functions; and the step changes no table and no sequence.
C20_Degraded ==
  /\ [](\A c \in Callers :
          (dq[c].pc = "done" /\ dq[c].noDb)
            => /\ db = {}
               /\ dq[c].ret = "returned"
               /\ ~dq[c].wrote
               /\ dq[c].user = {}
               /\ dq[c].value = 0)
  /\ [][\A c \in Callers :
          (/\ dq[c].pc = "idle" /\ dq'[c].pc # "idle"
           /\ db' = {}
           /\ dq'[c].op = "upsertUser"
                => OrNull(dq'[c].arg.supabaseId) \notin {Null, ""})
            => /\ dq'[c].pc = "done"
               /\ dq'[c].ret = "returned"
               /\ dq'[c].noDb
               /\ UNCHANGED <<users, users_id_seq, global_counter>>
       ]_vars

C20_Witness ==
  \E c \in Callers :
    /\ dq[c].pc = "done" /\ dq[c].op = "incrementCounter"
    /\ dq[c].noDb /\ dq[c].ret = "returned" /\ dq[c].value = 0
    /\ db = {} /\ global_counter = {} /\ now = 1

\* C21, as claimed: an upsertUser that got a handle from getDb() and whose
\* insert statement then failed throws to its caller an application error
\* of kind DATABASE_ERROR.
C21_DatabaseError ==
  \A c \in Callers :
    (dq[c].pc = "done" /\ dq[c].op = "upsertUser"
     /\ db # {} /\ ~dq[c].noDb /\ ~dq[c].wrote
     /\ OrNull(dq[c].arg.supabaseId) \notin {Null, ""})
      => /\ dq[c].ret = "thrown"
         /\ dq[c].error.type = "AppError"
         /\ dq[c].error.code = "DATABASE_ERROR"

\* a call starts and its getDb() creates the handle
CreatesHandle ==
  \E c \in Callers :
    /\ CallUpsertUser(c) \/ CallGetUserBySupabaseId(c) \/ CallCounter(c)
    /\ db' # {}

\* the step in which call c runs its await getDb()
CallsGetDb(c) ==
  /\ dq[c].pc = "idle" /\ dq'[c].pc # "idle"
  /\ dq'[c].op = "upsertUser" => OrNull(dq'[c].arg.supabaseId) \notin {Null, ""}

\* C22: once a getDb() call has created the handle, _db never changes again
\* and every later getDb() call, of any caller in any interleaving, returns
\* that handle; a getDb() call that finds no handle and cannot create one
\* returns none and leaves _db absent, and the next call can create it.
C22_SingleHandle ==
  /\ [](\A c \in Callers : dq[c].db # {} => dq[c].db = db)
  /\ [](db # {} => db = {drizzle(1)})
  /\ []((db = {} /\ \A c \in Callers : dq[c].pc = "idle") => ENABLED CreatesHandle)
  /\ [][db # {} => db' = db]_vars
  /\ [][\A c \in Callers :
          CallsGetDb(c) => /\ dq'[c].db = db'
                           /\ dq'[c].noDb <=> (db' = {})
                           /\ db' = {} => db = {}]_vars

\* two calls in flight hold the one handle: the later one reused it
C22_Witness ==
  /\ db # {}
  /\ dq[1].pc = "update" /\ dq[1].db = db
  /\ dq[2].pc = "ensure" /\ dq[2].db = db
  /\ now = 1

(***************************************************************************)
(* The order of the steps of createContext (checked under SpecCtx)         *)
(***************************************************************************)
\* the provider accepted the request's bearer credential
Verified(r) ==
  /\ ~NoBearer(r)
  /\ supabaseEnabled
  /\ r.supabaseUser \in SupabaseUser(bearerToken(r.authHeader))

\* the steps that can follow one another inside one call
StepOrder ==
  { <<"idle", "verify">>, <<"idle", "done">>,
    <<"verify", "lookup">>, <<"verify", "done">>,
    <<"lookup", "prepare">>, <<"lookup", "done">>,
    <<"prepare", "write">>, <<"prepare", "reread">>, <<"prepare", "done">>,
    <<"write", "reread">>, <<"write", "done">>,
    <<"reread", "done">>,
    <<"done", "idle">> }

\* C23: inside one createContext call the steps follow one another as
\* credential check, verification, lookup, then write and (first-time user
\* only) re-read; the call is at a directory step only after the provider
\* accepted its credential; the users table is written by the call only in
\* its write step; a first-time write is followed by the re-read and a
\* refresh by the return; and a call without bearer credential or without
\* accepted credential returns having read and written nothing.
C23_StepOrder ==
  /\ [](\A p \in Requests :
          LET r == rq[p]
          IN CASE r.pc \in {"idle", "verify"} ->
                    r.path = "" /\ ~r.wrote /\ ~r.noDb /\ r.dbUser = {}
               [] r.pc = "lookup" ->
                    Verified(r) /\ r.path = "" /\ ~r.wrote /\ ~r.noDb /\ r.dbUser = {}
               [] r.pc = "prepare" -> Verified(r) /\ r.path = "" /\ ~r.wrote
               [] r.pc = "write" ->
                    /\ Verified(r) /\ ~r.wrote
                    /\ r.path = IF r.dbUser = {} THEN "create" ELSE "refresh"
               [] r.pc = "reread" ->
                    Verified(r) /\ r.path = "create" /\ (r.wrote \/ r.noDb)
               [] OTHER ->
                    /\ (NoBearer(r) \/ RejectedBearer(r) \/ ~supabaseEnabled)
                          => r.supabaseUser = NoSupabaseUser
                    /\ r.supabaseUser = NoSupabaseUser
                          => /\ r.path = "" /\ ~r.wrote /\ ~r.noDb
                             /\ r.dbUser = {} /\ r.user = {}
                             /\ r.caught \in {"", "getUser"})
  /\ [][\A p \in Requests :
          rq'[p] # rq[p] =>
            /\ <<rq[p].pc, rq'[p].pc>> \in StepOrder
            /\ rq[p].pc # "write" => (users' = users /\ (rq'[p].wrote => rq[p].wrote))
            /\ (rq[p].pc \in {"prepare", "write"} /\ rq'[p].caught = ""
                /\ rq'[p].pc # "write")
                 => rq'[p].pc = IF rq'[p].path = "create" THEN "reread" ELSE "done"
     ]_vars

\* a first-time call on its way back after write and re-read, while another
\* call with a rejected credential has returned without touching the table
C23_Witness ==
  /\ rq[1].pc = "reread" /\ rq[1].path = "create" /\ rq[1].wrote
  /\ rq[2].pc = "done" /\ RejectedBearer(rq[2]) /\ ~rq[2].wrote
  /\ rq[2].path = ""

\* the calls whose update statement ran in this step
Updated == {c \in Callers : dq[c].pc = "update" /\ dq'[c].ret = "returned"}

\* C24: while the counter row exists, a step changes the stored value only
\* by running the update of one incrementCounter or decrementCounter call,
\* which adds 1 or subtracts 1 from the value stored at that moment and
\* returns the result to its own caller, whatever other calls are in flight;
\* so n increments and m decrements leave the initial value plus n minus m.
C24_NoLostUpdate ==
  [][counterRows(global_counter) # {} =>
       LET old == TheOne(counterRows(global_counter))
           new == counterRows(global_counter')
       IN /\ Cardinality(new) = 1
          /\ global_counter' = new
          /\ Cardinality(Updated) <= 1
          /\ Updated = {} => TheOne(new).value = old.value
          /\ \A c \in Updated :
               /\ TheOne(new).value =
                    old.value + (IF dq[c].op = "incrementCounter" THEN 1 ELSE 0 - 1)
               /\ dq'[c].value = TheOne(new).value
               /\ dq'[c].wrote
    ]_vars

\* two increments overlapped on a counter at -1: the first has returned 0
\* while the second, which began before, has yet to run its update
C24_Witness ==
  /\ counterRows(global_counter) # {}
  /\ TheOne(counterRows(global_counter)).value = 0
  /\ dq[1].pc = "done" /\ dq[1].op = "incrementCounter"
  /\ dq[1].ret = "returned" /\ dq[1].value = 0 /\ dq[1].wrote
  /\ dq[2].pc = "update" /\ dq[2].op = "incrementCounter"

(***************************************************************************)
(* The client's retry policy (checked under SpecQuery)                     *)
(***************************************************************************)
\* the error carries one of the codes that are not retried
NotRetried(error) ==
  /\ error.isTRPCClientError
  /\ error.data # {}
  /\ TheOne(error.data).code \in
       { {"AUTH_REQUIRED"}, {"AUTH_EXPIRED_TOKEN"}, {"FORBIDDEN"} }

\* C25: the function of a mutation is called once; the function of a query
\* is called at most 3 times; a failure with code AUTH_REQUIRED,
\* AUTH_EXPIRED_TOKEN or FORBIDDEN is the last attempt, every other failure
\* of a query is followed by a retry until 2 retries were made, and the
\* third failure puts the query in the error state.
C25_RetryPolicy ==
  LET n == Len(qry.failures)
  IN /\ qry.attempts <= 3
     /\ qry.type = "mutation" => qry.attempts <= 1
     /\ \A i \in 1..n :
          NotRetried(qry.failures[i]) => (i = n /\ qry.status = "error")
     /\ qry.status = "retrying" => (qry.type = "query" /\ qry.attempts <= 2)
     /\ qry.status = "error" =>
          /\ n = qry.attempts
          /\ qry.type = "query" =>
               (qry.attempts = 3 \/ NotRetried(qry.failures[n]))
     /\ (qry.status = "fetching" /\ qry.type = "query") => n = qry.attempts - 1

\* a query that failed three times, the last time with a retryable kind
C25_Witness ==
  /\ qry.type = "query" /\ qry.status = "error" /\ qry.attempts = 3
  /\ qry.failures[1].data = {}
  /\ qry.failures[2].data = {[code |-> {"ADMIN_REQUIRED"}]}
  /\ qry.failures[3].data = {[code |-> {"DATABASE_ERROR"}]}

(***************************************************************************)
(* The creation of the counter row (checked under SpecDir)                 *)
(***************************************************************************)
\* C26, as claimed: the table never holds more than one counter row, which
\* is created with id 1 and value 0; a getCounter that returns gives the
\* stored value; and no getCounter, incrementCounter or decrementCounter
\* call fails for another reason than a statement the store rejected as
\* unreachable, whatever calls overlap it.
C26_CreatesOnce ==
  /\ Cardinality(global_counter) <= 1
  /\ \A x \in global_counter : x.id = COUNTER_ID
  /\ \A c \in Callers :
       (dq[c].pc = "done" /\ dq[c].op \in CounterOps) =>
         /\ dq[c].ret = "thrown" => dq[c].error = PostgresError
         /\ (dq[c].ret = "returned" /\ ~dq[c].noDb) =>
              /\ counterRows(global_counter) # {}
              /\ dq[c].value = TheOne(counterRows(global_counter)).value

(***************************************************************************)
(* The realtime channel (checked under SpecSocket)                         *)
(***************************************************************************)
Connected == {c \in Clients : sockets[c].connected}

\* C27: connectedUsers is the number of connected sockets, never negative,
\* and once a users:count was broadcast the last one carries connectedUsers.
C27_UserCount ==
  /\ connectedUsers = Cardinality(Connected)
  /\ connectedUsers >= 0
  /\ io.usersCount # {} => io.usersCount = {connectedUsers}
  /\ (io.usersCount = {}) => connectedUsers = 0

\* one client is left after the other came and went
C27_Witness ==
  /\ sockets[1].connected /\ ~sockets[2].connected
  /\ connectedUsers = 1 /\ io.usersCount = {1}
  /\ sockets[1].users = 2
  /\ sockets[1].inbox = <<usersCount(1)>>

\* the hook's counter once the client has received, in order, all that is on
\* its way to it
RECURSIVE AfterAll(_)
AfterAll(sock) ==
  IF sock.inbox = << >> THEN sock.counter
  ELSE AfterAll(receive([sock EXCEPT !.inbox = Tail(@)], Head(sock.inbox)))

\* C28: realtimeCounter is the number of counter:increment events handled
\* minus the number of counter:decrement events handled; the step that
\* handles one sends counter:update with the new value to every connected
\* client; the first message a connecting client is sent is state:init with
\* the counter and a user count that counts it; and a connected client that
\* receives in order what was sent to it ends with the server's counter.
C28_CounterBroadcast ==
  /\ [](realtimeCounter = io.increments - io.decrements)
  /\ [](\A c \in Connected :
          /\ AfterAll(sockets[c]) = realtimeCounter
          /\ ~sockets[c].initialised =>
               (sockets[c].inbox # << >> /\ Head(sockets[c].inbox).type = "state:init")
          /\ (sockets[c].inbox = << >>) => sockets[c].counter = realtimeCounter)
  /\ [][/\ (io'.increments + io'.decrements # io.increments + io.decrements)
             => /\ realtimeCounter' =
                     realtimeCounter + (io'.increments - io.increments)
                                     - (io'.decrements - io.decrements)
                /\ Connected' = Connected
                /\ \A c \in Connected :
                     sockets'[c].inbox =
                       Append(sockets[c].inbox, counterUpdate(realtimeCounter'))
          /\ \A c \in Clients :
               (~sockets[c].connected /\ sockets'[c].connected)
                 => /\ Head(sockets'[c].inbox) =
                         stateInit(realtimeCounter, Cardinality(Connected'))
                    /\ c \in Connected'
     ]_vars

\* after an increment and a decrement, one client has received everything
\* and shows the server's 0 while both updates are on their way to the other
C28_Witness ==
  /\ io.increments = 1 /\ io.decrements = 1 /\ realtimeCounter = 0
  /\ sockets[1].connected /\ sockets[1].initialised
  /\ sockets[1].inbox = << >> /\ sockets[1].counter = 0
  /\ sockets[2].connected /\ sockets[2].initialised
  /\ sockets[2].inbox = <<counterUpdate(1), counterUpdate(0)>>

(***************************************************************************)
(* useComposition (checked under SpecComposition)                          *)
(***************************************************************************)
\* C29, as claimed: whatever the sequence of compositionStart and
\* compositionEnd events and of timeouts, after a compositionStart and until
\* the next compositionEnd isComposing() is true and no clearing of the flag
\* is pending; a keydown of Escape or of Enter without Shift in that time is
\* stopped and not forwarded; and the flag is cleared only by the inner
\* timeout, the second one after a compositionEnd.
C29_Composing ==
  /\ [](comp.composing => (isComposing /\ comp.queue = << >>))
  /\ []((comp.key.composing
         /\ (comp.key.key = "Escape" \/ (comp.key.key = "Enter" /\ ~comp.key.shiftKey)))
          => (comp.key.stopped /\ ~comp.key.forwarded))
  /\ [][(comp.c /\ ~comp'.c)
          => (comp.queue # << >> /\ Head(comp.queue).callback = 2
              /\ ~comp.composing /\ comp.ends > 0)]_vars

(***************************************************************************)
(* The client's auth store (checked under SpecStore)                       *)
(***************************************************************************)
\* C30, as claimed: isAuthenticated is true only with a session and a user
\* in the store; a step that takes the store from a session to no session
\* leaves it without user and with isAuthenticated false; and the step that
\* completes signOut leaves it without user and with isAuthenticated false.
C30_AuthStore ==
  /\ [](store.isAuthenticated => (store.session # {} /\ store.user # {}))
  /\ [][(store.session # {} /\ store'.session = {})
          => (store'.user = {} /\ ~store'.isAuthenticated)]_vars
  /\ [][(supa.signOut = "pending" /\ supa'.signOut = "none")
          => (store'.user = {} /\ ~store'.isAuthenticated)]_vars

====
